---------------------------- MODULE Spec2Model ----------------------------
(***************************************************************************)
(* A model of the mipsasm text parser (src/src/parser.rs), its label       *)
(* resolver, the instruction model and renderer (src/src/ast.rs) and the   *)
(* word encoder/decoder described in the design (the assembler and         *)
(* disassembler sources are not part of src/ and are modelled from the      *)
(* design document).                                                       *)
(*                                                                         *)
(* Text is modelled as sequences of one-character strings, so that         *)
(* splitting, trimming, case folding, prefix tests and numeric parsing are  *)
(* computed the way the code computes them.  32-bit values are pairs of     *)
(* 16-bit halves [hi, lo].                                                  *)
(***************************************************************************)
EXTENDS Integers, Sequences, FiniteSets, TLC

(***************************************************************************)
(* Bounds of the model.                                                    *)
(***************************************************************************)
\* longest source (in lines) given to scan
MaxLines == 3
\* most operands on a generated single line
MaxArgs == 4

\* let v = ...; F(v): a value computed once and used by what follows
Bind(v, F(_)) == F(v)

(***************************************************************************)
(* Characters and strings (Rust &str operations used by the parser).       *)
(***************************************************************************)
UpperChars == <<"A","B","C","D","E","F","G","H","I","J","K","L","M",
                "N","O","P","Q","R","S","T","U","V","W","X","Y","Z">>
LowerChars == <<"a","b","c","d","e","f","g","h","i","j","k","l","m",
                "n","o","p","q","r","s","t","u","v","w","x","y","z">>

\* The backquote character (the module's lexer admits no string holding it)
Backtick == "BACKQUOTE"

\* char::to_lowercase on ASCII
LowerChar(c) ==
  IF \E i \in 1..26 : UpperChars[i] = c
  THEN LowerChars[CHOOSE i \in 1..26 : UpperChars[i] = c]
  ELSE c

\* str::to_lowercase
ToLowercase(s) == [i \in 1..Len(s) |-> LowerChar(s[i])]

\* char::is_whitespace, for the characters that occur in source lines
IsWhitespace(c) == c \in {" ", "\t"}

\* s[a..b) in Rust's half-open, zero-based slice notation
Slice(s, a, b) == [i \in 1..(b - a) |-> s[a + i]]

\* str::starts_with / str::ends_with for a string pattern
StartsWith(s, p) == Len(p) <= Len(s) /\ Slice(s, 0, Len(p)) = p
EndsWith(s, p) == Len(p) <= Len(s) /\ Slice(s, Len(s) - Len(p), Len(s)) = p

\* str::find: the zero-based index of the first occurrence of p, or -1
FindStr(s, p) ==
  IF \E i \in 0..(Len(s) - Len(p)) : Slice(s, i, i + Len(p)) = p
  THEN CHOOSE i \in 0..(Len(s) - Len(p)) :
         /\ Slice(s, i, i + Len(p)) = p
         /\ \A j \in 0..(i - 1) : Slice(s, j, j + Len(p)) # p
  ELSE -1

\* str::contains
Contains(s, p) == FindStr(s, p) >= 0

\* str::replace(p, ""): every non-overlapping occurrence, left to right
RECURSIVE RemoveAll(_, _)
RemoveAll(s, p) ==
  IF p = <<>> \/ FindStr(s, p) < 0 THEN s
  ELSE Slice(s, 0, FindStr(s, p))
       \o RemoveAll(Slice(s, FindStr(s, p) + Len(p), Len(s)), p)

\* str::replace(&['(', ')'][..], ""): drop every character of the set
RemoveChars(s, cs) == SelectSeq(s, LAMBDA c : c \notin cs)

\* str::trim_start_matches(c) / str::trim_end_matches(c)
RECURSIVE TrimStartMatches(_, _)
TrimStartMatches(s, c) ==
  IF s # <<>> /\ s[1] = c THEN TrimStartMatches(Tail(s), c) ELSE s

RECURSIVE TrimEndMatches(_, _)
TrimEndMatches(s, c) ==
  IF s # <<>> /\ s[Len(s)] = c
  THEN TrimEndMatches(Slice(s, 0, Len(s) - 1), c) ELSE s

\* str::trim
RECURSIVE TrimStart(_)
TrimStart(s) == IF s # <<>> /\ IsWhitespace(s[1]) THEN TrimStart(Tail(s)) ELSE s

RECURSIVE TrimEnd(_)
TrimEnd(s) ==
  IF s # <<>> /\ IsWhitespace(s[Len(s)])
  THEN TrimEnd(Slice(s, 0, Len(s) - 1)) ELSE s

Trim(s) == TrimEnd(TrimStart(s))

\* str::split_whitespace: the non-empty maximal runs of non-whitespace
RECURSIVE SplitWsFrom(_, _, _)
SplitWsFrom(s, i, cur) ==
  IF i > Len(s) THEN (IF cur = <<>> THEN <<>> ELSE <<cur>>)
  ELSE IF IsWhitespace(s[i])
       THEN (IF cur = <<>> THEN SplitWsFrom(s, i + 1, <<>>)
             ELSE <<cur>> \o SplitWsFrom(s, i + 1, <<>>))
       ELSE SplitWsFrom(s, i + 1, Append(cur, s[i]))

SplitWhitespace(s) == SplitWsFrom(s, 1, <<>>)

\* str::split(c): empty pieces are kept, so "" splits into one empty piece
RECURSIVE SplitCharFrom(_, _, _, _)
SplitCharFrom(s, c, i, cur) ==
  IF i > Len(s) THEN <<cur>>
  ELSE IF s[i] = c
       THEN <<cur>> \o SplitCharFrom(s, c, i + 1, <<>>)
       ELSE SplitCharFrom(s, c, i + 1, Append(cur, s[i]))

SplitChar(s, c) == SplitCharFrom(s, c, 1, <<>>)

\* Iterator<&str>::collect::<String>(): concatenation
RECURSIVE ConcatAll(_)
ConcatAll(ts) == IF ts = <<>> THEN <<>> ELSE Head(ts) \o ConcatAll(Tail(ts))

(***************************************************************************)
(* Integers: 32-bit values are [hi, lo] pairs of 16-bit halves.            *)
(***************************************************************************)
TwoTo16 == 2^16

U32(h, l) == [hi |-> h, lo |-> l]

HexDigitChars == <<"0","1","2","3","4","5","6","7","8","9",
                   "a","b","c","d","e","f">>
HexDigitCharsUpper == <<"0","1","2","3","4","5","6","7","8","9",
                        "A","B","C","D","E","F">>

\* char::to_digit(radix): the digit's value, or -1
DigitVal(c, radix) ==
  IF \E i \in 1..radix : HexDigitChars[i] = LowerChar(c)
  THEN (CHOOSE i \in 1..radix : HexDigitChars[i] = LowerChar(c)) - 1
  ELSE -1

\* The digit loop of core::num::from_str_radix, the magnitude kept in 32
\* bits: ok turns FALSE on a character that is no digit of the radix, ovf
\* turns TRUE once the magnitude no longer fits 32 bits.
RECURSIVE AccumulateDigits(_, _, _)
AccumulateDigits(digits, radix, acc) ==
  IF digits = <<>> THEN acc
  ELSE Bind(DigitVal(Head(digits), radix), LAMBDA d :
         Bind(acc.lo * radix + (IF d < 0 THEN 0 ELSE d), LAMBDA l :
           Bind(acc.hi * radix + (l \div TwoTo16), LAMBDA h :
             AccumulateDigits(Tail(digits), radix,
               [ok  |-> acc.ok /\ d >= 0,
                ovf |-> acc.ovf \/ h >= TwoTo16,
                hi  |-> h % TwoTo16,
                lo  |-> l % TwoTo16]))))

\* core::num::from_str_radix for the integer type ty ("u16", "i16", "u32",
\* "i32"): [ok, neg, hi, lo] with hi/lo the magnitude.  An empty string, a
\* lone sign, an invalid digit, a '-' on an unsigned type or a value out of
\* the type's range all fail.
FromStrRadix(s, radix, ty) ==
  IF s = <<>> \/ s \in {<<"+">>, <<"-">>}
  THEN [ok |-> FALSE, neg |-> FALSE, hi |-> 0, lo |-> 0]
  ELSE Bind(s[1] = "-" /\ ty \in {"i16", "i32", "i64"}, LAMBDA neg :
         Bind(AccumulateDigits(IF s[1] = "+" \/ neg THEN Tail(s) ELSE s, radix,
                [ok |-> TRUE, ovf |-> FALSE, hi |-> 0, lo |-> 0]),
           LAMBDA m :
             IF /\ m.ok
                /\ ~m.ovf
                /\ CASE ty = "u16" -> m.hi = 0
                     [] ty = "i16" -> m.hi = 0 /\
                                      (IF neg THEN m.lo <= 32768 ELSE m.lo <= 32767)
                     [] ty = "u32" -> TRUE
                     [] ty = "i64" -> TRUE
                     [] ty = "i32" -> IF neg
                                      THEN m.hi < 32768 \/ (m.hi = 32768 /\ m.lo = 0)
                                      ELSE m.hi <= 32767
             THEN [ok |-> TRUE, neg |-> neg, hi |-> m.hi, lo |-> m.lo]
             ELSE [ok |-> FALSE, neg |-> FALSE, hi |-> 0, lo |-> 0]))

\* (v as u16) of a parsed 16-bit value: two's complement
AsU16(r) == IF r.neg THEN (TwoTo16 - r.lo) % TwoTo16 ELSE r.lo

\* (v as i16) of a stored u16
AsI16(v) == IF v >= 32768 THEN v - TwoTo16 ELSE v

\* format!("{:x}", n) for 0 <= n < 2^16+: no leading zeros, "0" for zero
RECURSIVE HexOf(_, _)
HexOf(n, digs) ==
  IF n < 16 THEN <<digs[n + 1]>>
  ELSE HexOf(n \div 16, digs) \o <<digs[(n % 16) + 1]>>

\* the low half of a 32-bit value printed under a non-zero high half
Hex4(n, digs) ==
  <<digs[(n \div 4096) + 1], digs[((n \div 256) % 16) + 1],
    digs[((n \div 16) % 16) + 1], digs[(n % 16) + 1]>>

\* format!("{:x}") / format!("{:X}") of a u32
HexOfU32(a, digs) ==
  IF a.hi = 0 THEN HexOf(a.lo, digs) ELSE HexOf(a.hi, digs) \o Hex4(a.lo, digs)

\* u32 addition base + k for a small k: [ovf, val]
AddU32(a, k) ==
  [ovf |-> a.hi + ((a.lo + k) \div TwoTo16) >= TwoTo16,
   val |-> U32((a.hi + ((a.lo + k) \div TwoTo16)) % TwoTo16,
               (a.lo + k) % TwoTo16)]

(***************************************************************************)
(* The instruction model's enumerations (ast.rs).  A register is its        *)
(* ordinal 0..31; an opcode is its variant name.                            *)
(***************************************************************************)
\* enum Register, Display (strum snake_case): ordinal i prints RegisterNames[i+1]
RegisterNames ==
  << <<"z","e","r","o">>, <<"a","t">>, <<"v","0">>, <<"v","1">>,
     <<"a","0">>, <<"a","1">>, <<"a","2">>, <<"a","3">>, <<"t","0">>,
     <<"t","1">>, <<"t","2">>, <<"t","3">>, <<"t","4">>, <<"t","5">>,
     <<"t","6">>, <<"t","7">>, <<"s","0">>, <<"s","1">>, <<"s","2">>,
     <<"s","3">>, <<"s","4">>, <<"s","5">>, <<"s","6">>, <<"s","7">>,
     <<"t","8">>, <<"t","9">>, <<"k","0">>, <<"k","1">>, <<"g","p">>,
     <<"s","p">>, <<"f","p">>, <<"r","a">> >>

\* enum FloatRegister, Display (strum snake_case)
FloatRegisterNames ==
  << <<"f","v","0">>, <<"f","v","0","f">>, <<"f","v","1">>,
     <<"f","v","1","f">>, <<"f","t","0">>, <<"f","t","0","f">>,
     <<"f","t","1">>, <<"f","t","1","f">>, <<"f","t","2">>,
     <<"f","t","2","f">>, <<"f","t","3">>, <<"f","t","3","f">>,
     <<"f","a","0">>, <<"f","a","0","f">>, <<"f","a","1">>,
     <<"f","a","1","f">>, <<"f","t","4">>, <<"f","t","4","f">>,
     <<"f","t","5">>, <<"f","t","5","f">>, <<"f","s","0">>,
     <<"f","s","0","f">>, <<"f","s","1">>, <<"f","s","1","f">>,
     <<"f","s","2">>, <<"f","s","2","f">>, <<"f","s","3">>,
     <<"f","s","3","f">>, <<"f","s","4">>, <<"f","s","4","f">>,
     <<"f","s","5">>, <<"f","s","5","f">> >>

\* enum ITypeOp: the variants, in declaration order
ITypeOps ==
  << "Addi", "Addiu", "Andi", "Bc0f", "Bc0fl", "Bc0t", "Bc0tl", "Bc1f",
     "Bc1fl", "Bc1t", "Bc1tl", "Beq", "Beql", "Beqz", "Bgez", "Bgezal",
     "Bgezall", "Bgezl", "Bgtz", "Bgtzl", "Blez", "Blezl", "Bltz",
     "Bltzal", "Bltzall", "Bltzl", "Bne", "Bnez", "Bnel", "Cache", "Daddi",
     "Daddiu", "Lb", "Lbu", "Ld", "Ldc1", "Ldl", "Ldr", "Lh", "Lhu", "Ll",
     "Lld", "Lui", "Lw", "Lwc1", "Lwl", "Lwr", "Lwu", "Ori", "Sb", "Sc",
     "Scd", "Sd", "Sdc1", "Sdl", "Sdr", "Sh", "Slti", "Sltiu", "Sw",
     "Swc1", "Swl", "Swr", "Teqi", "Tgei", "Tgeiu", "Tlti", "Tltiu",
     "Tnei", "Xori" >>

\* ITypeOp's strum names (snake_case), parallel to ITypeOps
ITypeOpNames ==
  << <<"a","d","d","i">>, <<"a","d","d","i","u">>, <<"a","n","d","i">>,
     <<"b","c","0","f">>, <<"b","c","0","f","l">>, <<"b","c","0","t">>,
     <<"b","c","0","t","l">>, <<"b","c","1","f">>, <<"b","c","1","f","l">>,
     <<"b","c","1","t">>, <<"b","c","1","t","l">>, <<"b","e","q">>,
     <<"b","e","q","l">>, <<"b","e","q","z">>, <<"b","g","e","z">>,
     <<"b","g","e","z","a","l">>, <<"b","g","e","z","a","l","l">>,
     <<"b","g","e","z","l">>, <<"b","g","t","z">>, <<"b","g","t","z","l">>,
     <<"b","l","e","z">>, <<"b","l","e","z","l">>, <<"b","l","t","z">>,
     <<"b","l","t","z","a","l">>, <<"b","l","t","z","a","l","l">>,
     <<"b","l","t","z","l">>, <<"b","n","e">>, <<"b","n","e","z">>,
     <<"b","n","e","l">>, <<"c","a","c","h","e">>, <<"d","a","d","d","i">>,
     <<"d","a","d","d","i","u">>, <<"l","b">>, <<"l","b","u">>,
     <<"l","d">>, <<"l","d","c","1">>, <<"l","d","l">>, <<"l","d","r">>,
     <<"l","h">>, <<"l","h","u">>, <<"l","l">>, <<"l","l","d">>,
     <<"l","u","i">>, <<"l","w">>, <<"l","w","c","1">>, <<"l","w","l">>,
     <<"l","w","r">>, <<"l","w","u">>, <<"o","r","i">>, <<"s","b">>,
     <<"s","c">>, <<"s","c","d">>, <<"s","d">>, <<"s","d","c","1">>,
     <<"s","d","l">>, <<"s","d","r">>, <<"s","h">>, <<"s","l","t","i">>,
     <<"s","l","t","i","u">>, <<"s","w">>, <<"s","w","c","1">>,
     <<"s","w","l">>, <<"s","w","r">>, <<"t","e","q","i">>,
     <<"t","g","e","i">>, <<"t","g","e","i","u">>, <<"t","l","t","i">>,
     <<"t","l","t","i","u">>, <<"t","n","e","i">>, <<"x","o","r","i">> >>

\* enum JTypeOp
JTypeOps ==
  << "J", "Jal" >>

\* JTypeOp's strum names
JTypeOpNames ==
  << <<"j">>, <<"j","a","l">> >>

\* enum RTypeOp: the variants, in declaration order
RTypeOps ==
  << "AbsS", "AbsD", "Add", "Addu", "AddS", "AddD", "And", "Break", "Cs",
     "Cd", "CeilLS", "CeilLD", "CeilWS", "CeilWD", "Cfc1", "Ctc1", "CvtDS",
     "CvtDW", "CvtDL", "CvtLS", "CvtLD", "CvtSD", "CvtSW", "CvtSL",
     "CvtWS", "CvtWD", "Dadd", "Daddu", "Ddiv", "Ddivu", "Div", "Divu",
     "DivS", "DivD", "Dmfc0", "Dmfc1", "Dmtc0", "Dmtc1", "Dmult", "Dmultu",
     "Dsll", "Dsll32", "Dsllv", "Dsra", "Dsra32", "Dsrav", "Dsrl",
     "Dsrl32", "Dsrlv", "Dsub", "Dsubu", "Eret", "FloorLS", "FloorLD",
     "FloorWS", "FloorWD", "Jalr", "Jr", "Mfc0", "Mfc1", "Mfhi", "Mflo",
     "MovS", "MovD", "Mtc0", "Mtc1", "Mthi", "Mtlo", "MulS", "MulD",
     "Mult", "Multu", "NegS", "NegD", "Nor", "Or", "RoundLS", "RoundLD",
     "RoundWS", "RoundWD", "Sll", "Sllv", "Slt", "Sltu", "SqrtS", "SqrtD",
     "Sra", "Srav", "Srl", "Srlv", "Sub", "Subu", "SubS", "SubD", "Sync",
     "Syscall", "Teq", "Tge", "Tgeu", "Tlbp", "Tlbr", "Tlbwi", "Tlbwr",
     "Tlt", "Tltu", "Tne", "TruncLS", "TruncLD", "TruncWS", "TruncWD",
     "Xor" >>

\* RTypeOp's strum names: snake_case, or the to_string override
RTypeOpNames ==
  << <<"a","b","s","_","s">>, <<"a","b","s","_","d">>, <<"a","d","d">>,
     <<"a","d","d","u">>, <<"a","d","d","_","s">>, <<"a","d","d","_","d">>,
     <<"a","n","d">>, <<"b","r","e","a","k">>, <<"c","s">>, <<"c","d">>,
     <<"c","e","i","l",".","l",".","s">>,
     <<"c","e","i","l",".","l",".","d">>,
     <<"c","e","i","l",".","w",".","s">>,
     <<"c","e","i","l",".","w",".","d">>, <<"c","f","c","1">>,
     <<"c","t","c","1">>, <<"c","v","t",".","d",".","s">>,
     <<"c","v","t",".","d",".","w">>, <<"c","v","t",".","d",".","l">>,
     <<"c","v","t",".","l",".","s">>, <<"c","v","t",".","l",".","d">>,
     <<"c","v","t",".","s",".","d">>, <<"c","v","t",".","s",".","w">>,
     <<"c","v","t",".","s",".","l">>, <<"c","v","t",".","w",".","s">>,
     <<"c","v","t",".","w",".","d">>, <<"d","a","d","d">>,
     <<"d","a","d","d","u">>, <<"d","d","i","v">>, <<"d","d","i","v","u">>,
     <<"d","i","v">>, <<"d","i","v","u">>, <<"d","i","v","_","s">>,
     <<"d","i","v","_","d">>, <<"d","m","f","c","0">>,
     <<"d","m","f","c","1">>, <<"d","m","t","c","0">>,
     <<"d","m","t","c","1">>, <<"d","m","u","l","t">>,
     <<"d","m","u","l","t","u">>, <<"d","s","l","l">>,
     <<"d","s","l","l","3","2">>, <<"d","s","l","l","v">>,
     <<"d","s","r","a">>, <<"d","s","r","a","3","2">>,
     <<"d","s","r","a","v">>, <<"d","s","r","l">>,
     <<"d","s","r","l","3","2">>, <<"d","s","r","l","v">>,
     <<"d","s","u","b">>, <<"d","s","u","b","u">>, <<"e","r","e","t">>,
     <<"f","l","o","o","r",".","l",".","s">>,
     <<"f","l","o","o","r",".","l",".","d">>,
     <<"f","l","o","o","r",".","w",".","s">>,
     <<"f","l","o","o","r",".","w",".","d">>, <<"j","a","l","r">>,
     <<"j","r">>, <<"m","f","c","0">>, <<"m","f","c","1">>,
     <<"m","f","h","i">>, <<"m","f","l","o">>, <<"m","o","v","_","s">>,
     <<"m","o","v","_","d">>, <<"m","t","c","0">>, <<"m","t","c","1">>,
     <<"m","t","h","i">>, <<"m","t","l","o">>, <<"m","u","l","_","s">>,
     <<"m","u","l","_","d">>, <<"m","u","l","t">>, <<"m","u","l","t","u">>,
     <<"n","e","g","_","s">>, <<"n","e","g","_","d">>, <<"n","o","r">>,
     <<"o","r">>, <<"r","o","u","n","d",".","l",".","s">>,
     <<"r","o","u","n","d",".","l",".","d">>,
     <<"r","o","u","n","d",".","w",".","s">>,
     <<"r","o","u","n","d",".","w",".","d">>, <<"s","l","l">>,
     <<"s","l","l","v">>, <<"s","l","t">>, <<"s","l","t","u">>,
     <<"s","q","r","t","_","s">>, <<"s","q","r","t","_","d">>,
     <<"s","r","a">>, <<"s","r","a","v">>, <<"s","r","l">>,
     <<"s","r","l","v">>, <<"s","u","b">>, <<"s","u","b","u">>,
     <<"s","u","b","_","s">>, <<"s","u","b","_","d">>, <<"s","y","n","c">>,
     <<"s","y","s","c","a","l","l">>, <<"t","e","q">>, <<"t","g","e">>,
     <<"t","g","e","u">>, <<"t","l","b","p">>, <<"t","l","b","r">>,
     <<"t","l","b","w","i">>, <<"t","l","b","w","r">>, <<"t","l","t">>,
     <<"t","l","t","u">>, <<"t","n","e">>,
     <<"t","r","u","n","c",".","l",".","s">>,
     <<"t","r","u","n","c",".","l",".","d">>,
     <<"t","r","u","n","c",".","w",".","s">>,
     <<"t","r","u","n","c",".","w",".","d">>, <<"x","o","r">> >>

\* enum FloatCond's strum names, in ordinal order
FloatCondNames ==
  << <<"f">>, <<"u","n">>, <<"e","q">>, <<"u","e","q">>, <<"o","l","t">>,
     <<"u","l","t">>, <<"o","l","e">>, <<"u","l","e">>, <<"s","f">>,
     <<"n","g","l","e">>, <<"s","e","q">>, <<"n","g","l">>, <<"l","t">>,
     <<"n","g","e">>, <<"l","e">>, <<"n","g","t">> >>

\* Instruction::Immediate { op, rs, rt, imm }
IInst(op, rs, rt, imm) ==
  [kind |-> "Immediate", op |-> op, rs |-> rs, rt |-> rt, imm |-> imm]

\* Instruction::Jump { op, target }
JInst(op, target) == [kind |-> "Jump", op |-> op, target |-> target]

\* Instruction::Register { op, rs, rt, rd, sa }
\* (sa is kept as the 32-bit value the parser computes)
RInst(op, rs, rt, rd, sa) ==
  [kind |-> "Register", op |-> op, rs |-> rs, rt |-> rt, rd |-> rd, sa |-> sa]

\* enum Immediate: a 16-bit number, or a label still to be resolved
ImmInt(v) == [tag |-> "Int", val |-> v]
ImmLabel(name) == [tag |-> "Label", name |-> name]

\* enum Target
TargetFunction(name) == [tag |-> "Function", name |-> name]
TargetLabel(name) == [tag |-> "Label", name |-> name]
TargetAddress(a) == [tag |-> "Address", addr |-> a]

\* Register::null()
RegisterNull == 0

\* Register::Ra
RegisterRa == 31

(***************************************************************************)
(* Results: Ok(value), a returned error, or a panic (process abort).       *)
(***************************************************************************)
Ok(v) == [tag |-> "Ok", val |-> v]
Err(kind, text) == [tag |-> "Err", kind |-> kind, text |-> text]
ErrCount(line, expected, found) ==
  [tag |-> "Err", kind |-> "InvalidOperandCount", text |-> line,
   expected |-> expected, found |-> found]
Panic(why) == [tag |-> "Panic", why |-> why]

\* r?: the failure r returned as it is, else the rest of the function on
\* r's value
AndThen(r, F(_)) == IF r.tag # "Ok" THEN r ELSE F(r.val)

\* r.map_err(|_| e)
MapErr(r, e) == IF r.tag = "Err" THEN e ELSE r

\* r.unwrap()
Unwrap(r) ==
  IF r.tag = "Err" THEN Panic("called Result::unwrap() on an Err value") ELSE r

\* The results rs of a match arm's steps in the order the arm evaluates
\* them: the first that is not Ok ends the arm (a ? returns it, a panic
\* aborts), else the arm returns Make of the steps' values
Try(rs, Make(_)) ==
  IF \E i \in 1..Len(rs) : rs[i].tag # "Ok"
  THEN rs[CHOOSE i \in 1..Len(rs) :
            rs[i].tag # "Ok" /\ \A j \in 1..(i - 1) : rs[j].tag = "Ok"]
  ELSE Ok(Make([i \in 1..Len(rs) |-> rs[i].val]))

\* strum's derived FromStr with ascii_case_insensitive: the variant whose
\* name equals s ignoring ASCII case
EnumFromStr(s, names, variants) ==
  IF \E i \in 1..Len(names) : names[i] = ToLowercase(s)
  THEN Ok(variants[CHOOSE i \in 1..Len(names) : names[i] = ToLowercase(s)])
  ELSE Err("VariantNotFound", s)

ITypeOpFromStr(s) == EnumFromStr(s, ITypeOpNames, ITypeOps)
JTypeOpFromStr(s) == EnumFromStr(s, JTypeOpNames, JTypeOps)
RTypeOpFromStr(s) == EnumFromStr(s, RTypeOpNames, RTypeOps)

\* strum's derived Display: the variant's name
EnumToString(v, names, variants) ==
  names[CHOOSE i \in 1..Len(variants) : variants[i] = v]

\* impl FromStr for Register
RegisterFromStr(reg) ==
  Bind(ToLowercase(TrimStartMatches(reg, "$")), LAMBDA s :
    IF s = <<"r","0">> THEN Ok(0)
    ELSE IF \E i \in 1..32 : RegisterNames[i] = s
    THEN Ok((CHOOSE i \in 1..32 : RegisterNames[i] = s) - 1)
    ELSE Err("RegParseError", s))

\* usize::to_string for 0..99
DecOf(n) ==
  IF n < 10 THEN <<HexDigitChars[n + 1]>>
  ELSE <<HexDigitChars[(n \div 10) + 1], HexDigitChars[(n % 10) + 1]>>

\* impl FromStr for FloatRegister: "fN" or the register's name
FloatRegisterFromStr(reg) ==
  Bind(ToLowercase(TrimStartMatches(reg, "$")), LAMBDA s :
    IF \E i \in 1..32 : s = <<"f">> \o DecOf(i - 1) \/ s = FloatRegisterNames[i]
    THEN Ok((CHOOSE i \in 1..32 :
               s = <<"f">> \o DecOf(i - 1) \/ s = FloatRegisterNames[i]) - 1)
    ELSE Err("RegParseError", s))

\* impl TryFrom<u32> for Register
RegisterTryFrom(n) ==
  IF n \in 0..31 THEN Ok(n) ELSE Err("RegParseError", DecOf(n % 100))

(***************************************************************************)
(* The mnemonic sets of parse_inst's match arms (parser.rs).               *)
(***************************************************************************)
\* parser.rs:106
LoadStoreOps ==
  { <<"c","a","c","h","e">>, <<"l","b">>, <<"l","b","u">>, <<"l","d">>,
    <<"l","d","l">>, <<"l","d","r">>, <<"l","h">>, <<"l","h","u">>,
    <<"l","l">>, <<"l","l","d">>, <<"l","w">>, <<"l","w","l">>,
    <<"l","w","r">>, <<"l","w","u">>, <<"s","b">>, <<"s","c">>,
    <<"s","c","d">>, <<"s","d">>, <<"s","d","l">>, <<"s","d","r">>,
    <<"s","h">>, <<"s","w">>, <<"s","w","l">>, <<"s","w","r">> }

\* parser.rs:167
ImmArithOps ==
  { <<"a","d","d","i">>, <<"a","d","d","i","u">>, <<"a","n","d","i">>,
    <<"d","a","d","d","i">>, <<"d","a","d","d","i","u">>, <<"o","r","i">>,
    <<"s","l","t","i">>, <<"s","l","t","i","u">>, <<"x","o","r","i">>,
    <<"d","s","u","b","i">>, <<"d","s","u","b","i","u">>,
    <<"s","u","b","i">>, <<"s","u","b","i","u">> }

\* parser.rs:213
LoadUpperOps ==
  { <<"l","u","i">>, <<"l","l","i">> }

\* parser.rs:242
Branch1RegOps ==
  { <<"b","g","e","z">>, <<"b","g","e","z","a","l">>,
    <<"b","g","e","z","a","l","l">>, <<"b","g","e","z","l">>,
    <<"b","l","t","z">>, <<"b","l","t","z","a","l">>,
    <<"b","l","t","z","a","l","l">>, <<"b","l","t","z","l">>,
    <<"t","e","q","i">>, <<"t","g","e","i">>, <<"t","g","e","i","u">>,
    <<"t","l","t","i">>, <<"t","l","t","i","u">>, <<"t","n","e","i">>,
    <<"b","e","q","z">>, <<"b","n","e","z">>, <<"b","e","q","z","l">>,
    <<"b","n","e","z","l">>, <<"b","g","t","z">>, <<"b","g","t","z","l">>,
    <<"b","l","e","z">>, <<"b","l","e","z","l">> }

\* parser.rs:273
Branch2RegOps ==
  { <<"b","e","q">>, <<"b","e","q","l">>, <<"b","n","e">>,
    <<"b","n","e","l">>, <<"b","g","e">>, <<"b","g","t">>, <<"b","l","e">>,
    <<"b","l","t">>, <<"b","g","e","u">>, <<"b","g","t","u">>,
    <<"b","l","e","u">>, <<"b","l","t","u">>, <<"b","g","e","l">>,
    <<"b","g","t","l">>, <<"b","l","e","l">>, <<"b","l","t","l">>,
    <<"b","g","e","u","l">>, <<"b","g","t","u","l">>,
    <<"b","l","e","u","l">>, <<"b","l","t","u","l">> }

\* parser.rs:309
JumpOps ==
  { <<"j">>, <<"j","a","l">> }

\* parser.rs:332
NoOperandOps ==
  { <<"n","o","p">>, <<"s","y","n","c">> }

\* parser.rs:345
Reg3Ops ==
  { <<"a","d","d">>, <<"a","d","d","u">>, <<"a","n","d">>,
    <<"d","a","d","d">>, <<"d","a","d","d","u">>, <<"d","s","u","b">>,
    <<"d","s","u","b","u">>, <<"n","o","r">>, <<"o","r">>, <<"s","l","t">>,
    <<"s","l","t","u">>, <<"s","u","b">>, <<"s","u","b","u">>,
    <<"x","o","r">>, <<"d","m","u","l">>, <<"d","m","u","l","u">>,
    <<"d","m","u","l","o">>, <<"d","m","u","l","o","u">>,
    <<"d","r","e","m">>, <<"d","r","e","m","u">>, <<"d","r","o","l">>,
    <<"d","r","o","r">>, <<"m","u","l">>, <<"m","u","l","u">>,
    <<"m","u","l","o">>, <<"m","u","l","o","u">>, <<"r","e","m">>,
    <<"r","e","m","u">>, <<"s","e","q">>, <<"s","g","e">>,
    <<"s","g","e","u">>, <<"s","g","t">>, <<"s","g","t","u">>,
    <<"s","l","e">>, <<"s","l","e","u">>, <<"s","n","e">> }

\* parser.rs:385
ShiftImmOps ==
  { <<"d","s","l","l">>, <<"d","s","l","l","3","2">>, <<"d","s","r","a">>,
    <<"d","s","r","a","3","2">>, <<"d","s","r","l">>,
    <<"d","s","r","l","3","2">>, <<"s","l","l">>, <<"s","r","a">>,
    <<"s","r","l">> }

\* parser.rs:426
ShiftRegOps ==
  { <<"d","s","l","l","v">>, <<"d","s","r","a","v">>,
    <<"d","s","r","l","v">>, <<"s","l","l","v">>, <<"s","r","a","v">>,
    <<"s","r","l","v">> }

\* parser.rs:463
CodeOps ==
  { <<"b","r","e","a","k">>, <<"s","y","s","c","a","l","l">> }

\* parser.rs:501
Reg2Ops ==
  { <<"d","m","u","l","t">>, <<"d","m","u","l","t","u">>,
    <<"m","u","l","t">>, <<"m","u","l","t","u">>, <<"t","e","q">>,
    <<"t","g","e">>, <<"t","g","e","u">>, <<"t","l","t">>,
    <<"t","l","t","u">>, <<"t","n","e">> }

\* parser.rs:534
JalrOps ==
  { <<"j","a","l","r">> }

\* parser.rs:574
MoveLikeOps ==
  { <<"a","b","s">>, <<"d","a","b","s">>, <<"d","m","o","v","e">>,
    <<"d","n","e","g">>, <<"d","n","e","g","u">>, <<"m","o","v","e">>,
    <<"n","e","g">>, <<"n","e","g","u">>, <<"n","o","t">> }

\* parser.rs:602
BranchOffsetOps ==
  { <<"b">>, <<"b","a","l">> }

\* parser.rs:623
LiOps ==
  { <<"l","i">> }

\* parser.rs:648
DivOps ==
  { <<"d","d","i","v">>, <<"d","d","i","v","u">>, <<"d","i","v">>,
    <<"d","i","v","u">> }

\* parser.rs:697
Reg1Ops ==
  { <<"j","r">>, <<"m","t","h","i">>, <<"m","t","l","o">> }

\* parser.rs:724
DestOnlyOps ==
  { <<"c","l","e","a","r">>, <<"m","f","h","i">>, <<"m","f","l","o">> }

\* parser.rs:747
DliOps ==
  { <<"d","l","i">> }

\* parser.rs:776
CopBranchOps ==
  { <<"b","c","0","f">>, <<"b","c","1","f">>, <<"b","c","0","f","l">>,
    <<"b","c","1","f","l">>, <<"b","c","0","t">>, <<"b","c","1","t">>,
    <<"b","c","0","t","l">>, <<"b","c","1","t","l">> }

\* parser.rs:800
Cop0MoveOps ==
  { <<"c","f","c","0">>, <<"c","t","c","0">>, <<"d","m","f","c","0">>,
    <<"d","m","t","c","0">>, <<"m","f","c","0">>, <<"m","t","c","0">> }

\* parser.rs:832
Cop1MoveOps ==
  { <<"c","f","c","1">>, <<"c","t","c","1">>, <<"d","m","f","c","1">>,
    <<"d","m","t","c","1">>, <<"m","f","c","1">>, <<"m","t","c","1">> }

\* parser.rs:864
CopNoOperandOps ==
  { <<"e","r","e","t">>, <<"t","l","b","p">>, <<"t","l","b","r">>,
    <<"t","l","b","w","i">>, <<"t","l","b","w","r">> }

\* parser.rs:877
FloatLoadStoreOps ==
  { <<"l","d","c","1">>, <<"l","w","c","1">>, <<"s","d","c","1">>,
    <<"s","w","c","1">> }

\* parser.rs:927
Float3RegStems ==
  { <<"a","d","d">>, <<"s","u","b">>, <<"m","u","l">>, <<"d","i","v">> }

\* parser.rs:964
Float2RegStems ==
  { <<"a","b","s">>, <<"c","e","i","l",".","l">>,
    <<"c","e","i","l",".","w">>, <<"c","v","t",".","d">>,
    <<"c","v","t",".","l">>, <<"c","v","t",".","s">>,
    <<"c","v","t",".","w">>, <<"f","l","o","o","r",".","l">>,
    <<"f","l","o","o","r",".","w">>, <<"m","o","v">>, <<"n","e","g">>,
    <<"r","o","u","n","d",".","l">>, <<"r","o","u","n","d",".","w">>,
    <<"s","q","r","t">>, <<"t","r","u","n","c",".","l">>,
    <<"t","r","u","n","c",".","w">> }

(***************************************************************************)
(* Operand parsing (parser.rs).  Parsing reads the label table only        *)
(* through contains_key, so these operators take "labels" as the set of    *)
(* the table's keys; "syms" is the symbol table (a function from names to  *)
(* 32-bit addresses) and "oc" tells whether the build checks arithmetic    *)
(* overflow (debug) or wraps (release).                                    *)
(***************************************************************************)

\* Target::as_u32: the address, or a panic on a symbolic target
TargetAsU32(t) ==
  IF t.tag = "Address" THEN Ok(t.addr) ELSE Panic("Target::as_u32")

\* Immediate::as_u32: the number, or a panic on a label
ImmediateAsU32(i) ==
  IF i.tag = "Int" THEN Ok(i.val) ELSE Panic("Immediate::as_u32")

\* A faulty classification that looks at the token's prefix before the
\* symbol table; C16 must tell it from parse_target
parse_target_prefix_first(target, syms) ==
  IF StartsWith(target, <<"~","F","u","n","c",":">>)
  THEN Ok(TargetFunction(RemoveAll(target, <<"~","F","u","n","c",":">>)))
  ELSE IF StartsWith(target, <<".">>) THEN Ok(TargetLabel(target))
  ELSE IF target \in DOMAIN syms THEN Ok(TargetAddress(syms[target]))
  ELSE Bind(IF EndsWith(target, <<Backtick>>)
            THEN FromStrRadix(TrimEndMatches(target, Backtick), 10, "u32")
            ELSE FromStrRadix(RemoveAll(target, <<"0","x">>), 16, "u32"),
         LAMBDA r :
           IF r.ok THEN Ok(TargetAddress(U32(r.hi, r.lo)))
           ELSE Err("InvalidTargetAddress", target))

\* Parser::parse_target
parse_target(target, syms) ==
  IF target \in DOMAIN syms THEN Ok(TargetAddress(syms[target]))
  ELSE IF StartsWith(target, <<"~","F","u","n","c",":">>)
  THEN Ok(TargetFunction(RemoveAll(target, <<"~","F","u","n","c",":">>)))
  ELSE IF StartsWith(target, <<".">>) THEN Ok(TargetLabel(target))
  ELSE Bind(IF EndsWith(target, <<Backtick>>)
            THEN FromStrRadix(TrimEndMatches(target, Backtick), 10, "u32")
            ELSE FromStrRadix(RemoveAll(target, <<"0","x">>), 16, "u32"),
         LAMBDA r :
           IF r.ok THEN Ok(TargetAddress(U32(r.hi, r.lo)))
           ELSE Err("InvalidTargetAddress", target))

\* Regex \(.*\) . find(s): [found, text]; greedy, so from the first '(' to
\* the last ')' after it
FindParenGreedy(s) ==
  IF \E i \in 1..Len(s) : s[i] = "(" /\ \E j \in (i + 1)..Len(s) : s[j] = ")"
  THEN [found |-> TRUE,
        text |-> Slice(s,
                   (CHOOSE i \in 1..Len(s) :
                      s[i] = "(" /\ \A k \in 1..(i - 1) : s[k] # "(") - 1,
                   CHOOSE j \in 1..Len(s) :
                     s[j] = ")" /\ \A k \in (j + 1)..Len(s) : s[k] # ")")]
  ELSE [found |-> FALSE, text |-> <<>>]

\* %hi of a 32-bit address: ((x + (x & 0x8000) * 2) >> 16) as u16.  The
\* u32 addition overflows for x >= 0xFFFF8000 with bit 15 set: a build
\* with overflow checks panics there, one without wraps.
HiOf(x, overflow_checks) ==
  IF x.hi + ((x.lo \div 32768) % 2) >= TwoTo16 /\ overflow_checks
  THEN Panic("attempt to add with overflow")
  ELSE Ok(ImmInt((x.hi + ((x.lo \div 32768) % 2)) % TwoTo16))

\* %lo of a 32-bit address: (x & 0xffff) as u16
LoOf(x) == Ok(ImmInt(x.lo))

\* Immediate::new::<T>(v) for a 16-bit T: the value as u16
ImmediateNew(r) == ImmInt(AsU16(r))

\* Parser::parse_immediate::<T> for T = "u16" or "i16"
parse_immediate(imm0, ty, labels, syms, overflow_checks) ==
  Bind(Trim(imm0), LAMBDA imm :
    IF imm \in labels THEN Ok(ImmLabel(imm))
    ELSE Bind(FindParenGreedy(imm), LAMBDA m :
      IF m.found
      THEN AndThen(parse_target(RemoveChars(m.text, {"(", ")"}), syms),
             LAMBDA x :
               IF Len(imm) < 3 THEN Panic("byte index 3 is out of bounds")
               ELSE IF Slice(imm, 0, 3) = <<"%","h","i">>
               THEN AndThen(TargetAsU32(x), LAMBDA a : HiOf(a, overflow_checks))
               ELSE IF Slice(imm, 0, 3) = <<"%","l","o">>
               THEN AndThen(TargetAsU32(x), LAMBDA a : LoOf(a))
               ELSE Panic("not yet implemented"))
      ELSE IF Contains(imm, <<"0","x">>)
      THEN Bind(RemoveAll(imm, <<"0","x">>), LAMBDA t :
             Bind(FromStrRadix(t, 16, ty), LAMBDA r :
               IF r.ok THEN Ok(ImmediateNew(r))
               ELSE Err("InvalidImmediate", t)))
      ELSE Bind(FromStrRadix(imm, 10, ty), LAMBDA r :
             IF r.ok THEN Ok(ImmediateNew(r))
             ELSE Err("InvalidImmediate", imm))))

\* A faulty suffix table, every ordinal one too high; C19 must tell it
\* from parse_float_cond
parse_float_cond_shifted(cond) ==
  IF \E i \in 1..16 : FloatCondNames[i] = ToLowercase(cond)
  THEN Ok(CHOOSE i \in 1..16 : FloatCondNames[i] = ToLowercase(cond))
  ELSE Err("InvalidFloatCond", cond)

\* parse_float_cond
parse_float_cond(cond) ==
  IF \E i \in 1..16 : FloatCondNames[i] = ToLowercase(cond)
  THEN Ok((CHOOSE i \in 1..16 : FloatCondNames[i] = ToLowercase(cond)) - 1)
  ELSE Err("InvalidFloatCond", cond)

(***************************************************************************)
(* parse_inst's operand templates (parser.rs), one operator per match arm. *)
(* Each takes the source line inst, its mnemonic token op and the          *)
(* comma-separated operand texts args.                                     *)
(***************************************************************************)
Zero32 == U32(0, 0)

\* x.parse::<Register>().map_err(|_| InvalidRegister(inst))
Reg(x, inst) == MapErr(RegisterFromStr(x), Err("InvalidRegister", inst))

\* x.parse::<FloatRegister>().map_err(|_| InvalidRegister(inst))
FReg(x, inst) == MapErr(FloatRegisterFromStr(x), Err("InvalidRegister", inst))

\* x.parse::<Register>().unwrap()
RegUnwrap(x) == Unwrap(RegisterFromStr(x))

\* op.parse().map_err(|_| InvalidOpcode(inst)), for each opcode enum
IOp(op, inst) == MapErr(ITypeOpFromStr(op), Err("InvalidOpcode", inst))

JOp(op, inst) == MapErr(JTypeOpFromStr(op), Err("InvalidOpcode", inst))

ROp(op, inst) == MapErr(RTypeOpFromStr(op), Err("InvalidOpcode", inst))

\* base_regex \(.*?\) . find_iter(x) . last(): the last of the
\* non-overlapping lazy matches, each from a '(' to the next ')'
RECURSIVE LastParenLazyFrom(_, _, _)
LastParenLazyFrom(s, p, last) ==
  IF \E i \in p..Len(s) : s[i] = "(" /\ \E j \in (i + 1)..Len(s) : s[j] = ")"
  THEN Bind(CHOOSE i \in p..Len(s) :
              s[i] = "(" /\ \A k \in p..(i - 1) : s[k] # "(",
         LAMBDA a :
           Bind(CHOOSE j \in (a + 1)..Len(s) :
                  s[j] = ")" /\ \A k \in (a + 1)..(j - 1) : s[k] # ")",
             LAMBDA b :
               LastParenLazyFrom(s, b + 1,
                 [found |-> TRUE, text |-> Slice(s, a - 1, b)])))
  ELSE last

BaseRegexLast(x) == LastParenLazyFrom(x, 1, [found |-> FALSE, text |-> <<>>])

\* offset_regex .+\s*\( . find(x): leftmost and greedy, so the text from
\* the start of x up to and including its last '(', if at least one
\* character precedes that '('
OffsetRegexFind(x) ==
  IF \E i \in 2..Len(x) : x[i] = "("
  THEN [found |-> TRUE,
        text |-> Slice(x, 0, CHOOSE i \in 2..Len(x) :
                               x[i] = "(" /\ \A k \in (i + 1)..Len(x) : x[k] # "(")]
  ELSE [found |-> FALSE, text |-> <<>>]

\* rt of a load/store: a register name, or for "cache" a number made a
\* register by Register::try_from(parse_immediate::<u16>(..)?.as_u32()).unwrap()
LoadStoreRt(op, arg, labels, syms, oc) ==
  IF Trim(ToLowercase(op)) = <<"c","a","c","h","e">>
  THEN AndThen(parse_immediate(arg, "u16", labels, syms, oc), LAMBDA i :
         AndThen(ImmediateAsU32(i), LAMBDA n : Unwrap(RegisterTryFrom(n))))
  ELSE RegUnwrap(arg)

\* The text of the base register in offset(base): the last match of
\* base_regex without its parentheses, trimmed; no match is InvalidInstruction
BaseText(x, inst) ==
  Bind(BaseRegexLast(x), LAMBDA b :
    IF b.found THEN Ok(Trim(RemoveChars(b.text, {"(", ")"})))
    ELSE Err("InvalidInstruction", inst))

\* A faulty load/store template, the base register and rt exchanged in the
\* result; C8 must tell it from ParseLoadStore
ParseLoadStoreSwapped(inst, op, args, labels, syms, oc) ==
  IF Len(args) # 2 THEN ErrCount(inst, 2, Len(args))
  ELSE Try(<<LoadStoreRt(op, args[1], labels, syms, oc),
             AndThen(BaseText(args[2], inst), LAMBDA b : RegUnwrap(b)),
             IOp(op, inst),
             Bind(OffsetRegexFind(args[2]), LAMBDA off :
               parse_immediate(IF off.found
                               THEN Slice(off.text, 0, Len(off.text) - 1)
                               ELSE <<"0">>,
                               "i16", labels, syms, oc))>>,
           LAMBDA v : IInst(v[3], v[1], v[2], v[4]))

\* "cache" | "lb" | ... | "swr":  op rt, offset(base)
ParseLoadStore(inst, op, args, labels, syms, oc) ==
  IF Len(args) # 2 THEN ErrCount(inst, 2, Len(args))
  ELSE Try(<<LoadStoreRt(op, args[1], labels, syms, oc),
             AndThen(BaseText(args[2], inst), LAMBDA b : RegUnwrap(b)),
             IOp(op, inst),
             Bind(OffsetRegexFind(args[2]), LAMBDA off :
               parse_immediate(IF off.found
                               THEN Slice(off.text, 0, Len(off.text) - 1)
                               ELSE <<"0">>,
                               "i16", labels, syms, oc))>>,
           LAMBDA v : IInst(v[3], v[2], v[1], v[4]))

\* "addi" | "addiu" | "andi" | ...:  op rt, rs, immediate
ParseImmArith(inst, op, args, labels, syms, oc) ==
  IF Len(args) # 3 THEN ErrCount(inst, 3, Len(args))
  ELSE Try(<<Reg(args[1], inst),
             Reg(args[2], inst),
             IOp(op, inst),
             parse_immediate(args[3],
               IF op \in {<<"a","n","d","i">>, <<"o","r","i">>, <<"x","o","r","i">>}
               THEN "u16" ELSE "i16",
               labels, syms, oc)>>,
           LAMBDA v : IInst(v[3], v[2], v[1], v[4]))

\* "lui" | "lli":  op rt, immediate
ParseLoadUpper(inst, op, args, labels, syms, oc) ==
  IF Len(args) # 2 THEN ErrCount(inst, 2, Len(args))
  ELSE Try(<<Reg(args[1], inst),
             IOp(op, inst),
             parse_immediate(args[2], "u16", labels, syms, oc)>>,
           LAMBDA v : IInst(v[2], RegisterNull, v[1], v[3]))

\* "bgez" | ... | "teqi" | ... | "blezl":  op rs, offset
ParseBranch1Reg(inst, op, args, labels, syms, oc) ==
  IF Len(args) # 2 THEN ErrCount(inst, 2, Len(args))
  ELSE Try(<<Reg(args[1], inst),
             IOp(op, inst),
             parse_immediate(args[2], "i16", labels, syms, oc)>>,
           LAMBDA v : IInst(v[2], v[1], RegisterNull, v[3]))

\* A faulty two-register branch template that swallows the offset's error
\* and stores offset 0; C14 must tell it from ParseBranch2Reg
ParseBranch2RegLenient(inst, op, args, labels, syms, oc) ==
  IF Len(args) # 3 THEN ErrCount(inst, 3, Len(args))
  ELSE Try(<<Reg(args[1], inst),
             Reg(args[2], inst),
             IOp(op, inst),
             MapErr(parse_immediate(args[3], "i16", labels, syms, oc),
                    Ok(ImmInt(0)))>>,
           LAMBDA v : IInst(v[3], v[1], v[2], v[4]))

\* "beq" | "beql" | "bne" | ...:  op rs, rt, offset
ParseBranch2Reg(inst, op, args, labels, syms, oc) ==
  IF Len(args) # 3 THEN ErrCount(inst, 3, Len(args))
  ELSE Try(<<Reg(args[1], inst),
             Reg(args[2], inst),
             IOp(op, inst),
             parse_immediate(args[3], "i16", labels, syms, oc)>>,
           LAMBDA v : IInst(v[3], v[1], v[2], v[4]))

\* "j" | "jal":  op target
ParseJump(inst, op, args, labels, syms, oc) ==
  IF Len(args) # 1 THEN ErrCount(inst, 1, Len(args))
  ELSE Try(<<JOp(op, inst), parse_target(Trim(args[1]), syms)>>,
           LAMBDA v : JInst(v[1], v[2]))

\* "nop" | "sync" and "eret" | "tlbp" | ...:  op, operands not looked at
ParseNoOperand(inst, op, args, labels, syms, oc) ==
  Try(<<ROp(op, inst)>>,
      LAMBDA v : RInst(v[1], RegisterNull, RegisterNull, RegisterNull, Zero32))

\* A faulty reg-reg-reg template, rs and rt exchanged in the result; C7
\* must tell it from ParseReg3
ParseReg3Swapped(inst, op, args, labels, syms, oc) ==
  IF Len(args) # 3 THEN ErrCount(inst, 3, Len(args))
  ELSE Try(<<Reg(args[1], inst), Reg(args[2], inst), Reg(args[3], inst),
             ROp(op, inst)>>,
           LAMBDA v : RInst(v[4], v[3], v[2], v[1], Zero32))

\* "add" | "addu" | "and" | ...:  op rd, rs, rt
ParseReg3(inst, op, args, labels, syms, oc) ==
  IF Len(args) # 3 THEN ErrCount(inst, 3, Len(args))
  ELSE Try(<<Reg(args[1], inst), Reg(args[2], inst), Reg(args[3], inst),
             ROp(op, inst)>>,
           LAMBDA v : RInst(v[4], v[2], v[3], v[1], Zero32))

\* The shift amount: trim_end_matches('`').parse::<i32>().unwrap() as u32,
\* or i32::from_str_radix(hex, 16).unwrap() as u32
ParseShiftAmount(sa) ==
  Bind(IF EndsWith(sa, <<Backtick>>) \/ ~Contains(sa, <<"0","x">>)
       THEN FromStrRadix(TrimEndMatches(sa, Backtick), 10, "i32")
       ELSE FromStrRadix(RemoveAll(sa, <<"0","x">>), 16, "i32"),
    LAMBDA r :
      IF ~r.ok THEN Panic("called Result::unwrap() on an Err value")
      ELSE IF ~r.neg \/ (r.hi = 0 /\ r.lo = 0) THEN Ok(U32(r.hi, r.lo))
      ELSE Ok(U32((TwoTo16 - 1 - r.hi + (IF r.lo = 0 THEN 1 ELSE 0)) % TwoTo16,
                  (TwoTo16 - r.lo) % TwoTo16)))

\* "dsll" | "dsll32" | ... | "srl":  op rd, rt, sa
ParseShiftImm(inst, op, args, labels, syms, oc) ==
  IF Len(args) # 3 THEN ErrCount(inst, 3, Len(args))
  ELSE Try(<<Reg(args[1], inst), Reg(args[2], inst), ROp(op, inst),
             ParseShiftAmount(Trim(args[3]))>>,
           LAMBDA v : RInst(v[3], RegisterNull, v[2], v[1], v[4]))

\* "dsllv" | ... | "srlv":  op rd, rt, rs
ParseShiftReg(inst, op, args, labels, syms, oc) ==
  IF Len(args) # 3 THEN ErrCount(inst, 3, Len(args))
  ELSE Try(<<Reg(args[1], inst), Reg(args[2], inst), Reg(args[3], inst),
             ROp(op, inst)>>,
           LAMBDA v : RInst(v[4], v[3], v[2], v[1], Zero32))

\* "break" | "syscall":  op [code]
ParseCode(inst, op, args, labels, syms, oc) ==
  IF Len(args) # 1 THEN ErrCount(inst, 1, Len(args))
  ELSE AndThen(IF args[1] = <<>> THEN Ok(ImmInt(0))
               ELSE parse_immediate(Trim(args[1]), "u16", labels, syms, oc),
         LAMBDA code :
           Try(<<ROp(op, inst), ImmediateAsU32(code)>>,
               LAMBDA v : RInst(v[1], RegisterNull, RegisterNull, RegisterNull,
                                U32(0, v[2]))))

\* "dmult" | ... | "teq" | ... | "tne":  op rs, rt
ParseReg2(inst, op, args, labels, syms, oc) ==
  IF Len(args) # 2 THEN ErrCount(inst, 2, Len(args))
  ELSE Try(<<Reg(args[1], inst), Reg(args[2], inst), ROp(op, inst)>>,
           LAMBDA v : RInst(v[3], v[1], v[2], RegisterNull, Zero32))

\* "jalr":  op rs   or   op rd, rs
\* ParseJalr with the two operands read as "rs, rd"
ParseJalrSwapped(inst, op, args, labels, syms, oc) ==
  IF Len(args) # 2 /\ Len(args) # 1 THEN ErrCount(inst, 2, Len(args))
  ELSE IF Len(args) = 1
  THEN Try(<<Reg(args[1], inst), ROp(op, inst)>>,
           LAMBDA v : RInst(v[2], v[1], RegisterNull, RegisterRa, Zero32))
  ELSE Try(<<Reg(args[1], inst), Reg(args[2], inst), ROp(op, inst)>>,
           LAMBDA v : RInst(v[3], v[1], RegisterNull, v[2], Zero32))

ParseJalr(inst, op, args, labels, syms, oc) ==
  IF Len(args) # 2 /\ Len(args) # 1 THEN ErrCount(inst, 2, Len(args))
  ELSE IF Len(args) = 1
  THEN Try(<<Reg(args[1], inst), ROp(op, inst)>>,
           LAMBDA v : RInst(v[2], v[1], RegisterNull, RegisterRa, Zero32))
  ELSE Try(<<Reg(args[1], inst), Reg(args[2], inst), ROp(op, inst)>>,
           LAMBDA v : RInst(v[3], v[2], RegisterNull, v[1], Zero32))

\* "abs" | "dabs" | "dmove" | ... | "not":  op rd, rs
ParseMoveLike(inst, op, args, labels, syms, oc) ==
  IF Len(args) # 2 THEN ErrCount(inst, 2, Len(args))
  ELSE Try(<<Reg(args[1], inst), Reg(args[2], inst), ROp(op, inst)>>,
           LAMBDA v : RInst(v[3], v[2], RegisterNull, v[1], Zero32))

\* "b" | "bal" and "bc0f" | "bc1f" | ...:  op offset
ParseBranchOffset(inst, op, args, labels, syms, oc) ==
  IF Len(args) # 1 THEN ErrCount(inst, 1, Len(args))
  ELSE Try(<<IOp(op, inst),
             parse_immediate(args[1], "i16", labels, syms, oc)>>,
           LAMBDA v : IInst(v[1], RegisterNull, RegisterNull, v[2]))

\* "li" (ty = "i32") and "dli" (ty = "i64"):  op rt, immediate
ParseLoadImmediate(inst, op, args, ty, labels, syms, oc) ==
  IF Len(args) # 2 THEN ErrCount(inst, 2, Len(args))
  ELSE Try(<<Reg(args[1], inst),
             IOp(op, inst),
             parse_immediate(args[2], ty, labels, syms, oc)>>,
           LAMBDA v : IInst(v[2], RegisterNull, v[1], v[3]))

\* "ddiv" | "ddivu" | "div" | "divu":  op rd, rs   or   op rd, rs, rt
ParseDiv(inst, op, args, labels, syms, oc) ==
  IF Len(args) # 3 /\ Len(args) # 2 THEN ErrCount(inst, 3, Len(args))
  ELSE IF Len(args) = 2
  THEN Try(<<Reg(args[1], inst), Reg(args[2], inst), ROp(op, inst)>>,
           LAMBDA v : RInst(v[3], v[2], RegisterNull, v[1], Zero32))
  ELSE Try(<<Reg(args[1], inst), Reg(args[2], inst), Reg(args[3], inst),
             ROp(op, inst)>>,
           LAMBDA v : RInst(v[4], v[2], v[3], v[1], Zero32))

\* "jr" | "mthi" | "mtlo":  op rs
ParseReg1(inst, op, args, labels, syms, oc) ==
  IF Len(args) # 1 THEN ErrCount(inst, 1, Len(args))
  ELSE Try(<<Reg(args[1], inst), ROp(op, inst)>>,
           LAMBDA v : RInst(v[2], v[1], RegisterNull, RegisterNull, Zero32))

\* "clear" | "mfhi" | "mflo":  op rd
ParseDestOnly(inst, op, args, labels, syms, oc) ==
  IF Len(args) # 1 THEN ErrCount(inst, 1, Len(args))
  ELSE Try(<<Reg(args[1], inst), ROp(op, inst)>>,
           LAMBDA v : RInst(v[2], RegisterNull, RegisterNull, v[1], Zero32))

\* impl FromStr for Cop0Register.  The type is used by the parser but its
\* source is not part of ast.rs; the design only says that system
\* registers follow the ordinal contract of Register, so the model accepts
\* a register's decimal ordinal.
Cop0RegisterFromStr(reg) ==
  Bind(ToLowercase(TrimStartMatches(reg, "$")), LAMBDA s :
    IF \E i \in 0..31 : s = DecOf(i)
    THEN Ok(CHOOSE i \in 0..31 : s = DecOf(i))
    ELSE Err("RegParseError", s))

\* "cfc0" | "ctc0" | "dmfc0" | "dmtc0" | "mfc0" | "mtc0":  op rt, rd
ParseCop0Move(inst, op, args, labels, syms, oc) ==
  IF Len(args) # 2 THEN ErrCount(inst, 2, Len(args))
  ELSE Try(<<Reg(args[1], inst),
             MapErr(Cop0RegisterFromStr(args[2]), Err("InvalidRegister", inst)),
             ROp(op, inst)>>,
           LAMBDA v : RInst(v[3], RegisterNull, v[1], v[2], Zero32))

\* "cfc1" | "ctc1" | "dmfc1" | "dmtc1" | "mfc1" | "mtc1":  op rt, fs
ParseCop1Move(inst, op, args, labels, syms, oc) ==
  IF Len(args) # 2 THEN ErrCount(inst, 2, Len(args))
  ELSE Try(<<Reg(args[1], inst), FReg(args[2], inst), ROp(op, inst)>>,
           LAMBDA v : RInst(v[3], RegisterNull, v[1], v[2], Zero32))

\* "ldc1" | "lwc1" | "sdc1" | "swc1":  op ft, offset(base)
ParseFloatLoadStore(inst, op, args, labels, syms, oc) ==
  IF Len(args) # 2 THEN ErrCount(inst, 2, Len(args))
  ELSE Try(<<FReg(args[1], inst),
             AndThen(BaseText(args[2], inst), LAMBDA b : Reg(b, inst)),
             IOp(op, inst),
             Bind(OffsetRegexFind(args[2]), LAMBDA off :
               parse_immediate(IF off.found
                               THEN RemoveAll(off.text, <<"(">>)
                               ELSE <<"0">>,
                               "i16", labels, syms, oc))>>,
           LAMBDA v : IInst(v[3], v[2], v[1], v[4]))

\* the fallback arm's "add" | "sub" | "mul" | "div":  op.fmt fd, fs, ft
ParseFloat3Reg(inst, op, args, labels, syms, oc) ==
  IF Len(args) # 3 THEN ErrCount(inst, 3, Len(args))
  ELSE Try(<<FReg(args[1], inst), FReg(args[2], inst), FReg(args[3], inst),
             ROp(op, inst)>>,
           LAMBDA v : RInst(v[4], v[2], v[3], v[1], Zero32))

\* the fallback arm's "abs" | "ceil.l" | ... | "trunc.w":  op.fmt fd, fs
ParseFloat2Reg(inst, op, args, labels, syms, oc) ==
  IF Len(args) # 2 THEN ErrCount(inst, 2, Len(args))
  ELSE Try(<<FReg(args[1], inst), FReg(args[2], inst), ROp(op, inst)>>,
           LAMBDA v : RInst(v[3], v[2], RegisterNull, v[1], Zero32))

\* the fallback arm's "c." prefix:  c.cond.fmt fs, ft
ParseFloatCompare(inst, op, args, labels, syms, oc) ==
  IF Len(args) # 2 THEN ErrCount(inst, 2, Len(args))
  ELSE Try(<<FReg(args[1], inst), FReg(args[2], inst),
             ROp(<<"C", ".", op[Len(op)]>>, inst),
             Bind(SplitChar(op, "."), LAMBDA parts :
               IF Len(parts) < 2
               THEN Panic("called Option::unwrap() on a None value")
               ELSE parse_float_cond(parts[2]))>>,
           LAMBDA v : RInst(v[3], v[1], v[2], RegisterNull, U32(0, v[4])))

\* the fallback arm: match &op.to_lowercase()[..op.len() - 2]
ParseFallback(inst, op, args, labels, syms, oc) ==
  IF Len(op) < 2 THEN Panic("attempt to subtract with overflow")
  ELSE Bind(Slice(ToLowercase(op), 0, Len(op) - 2), LAMBDA e :
         IF e \in Float3RegStems
         THEN ParseFloat3Reg(inst, op, args, labels, syms, oc)
         ELSE IF e \in Float2RegStems
         THEN ParseFloat2Reg(inst, op, args, labels, syms, oc)
         ELSE IF StartsWith(e, <<"c", ".">>)
         THEN ParseFloatCompare(inst, op, args, labels, syms, oc)
         ELSE Err("InvalidInstruction", inst))

\* Parser::parse_inst: the mnemonic op, the operand texts args, and the
\* match on mn = op.to_lowercase().trim()
parse_inst(inst, labels, syms, oc) ==
  Bind(SplitWhitespace(inst), LAMBDA line :
    IF line = <<>> THEN Err("InvalidInstruction", inst)
    ELSE
      Bind(Head(line), LAMBDA op :
        Bind(SplitChar(ConcatAll(Tail(line)), ","), LAMBDA args :
          Bind(Trim(ToLowercase(op)), LAMBDA mn :
            IF mn \in LoadStoreOps THEN ParseLoadStore(inst, op, args, labels, syms, oc)
            ELSE IF mn \in ImmArithOps THEN ParseImmArith(inst, op, args, labels, syms, oc)
            ELSE IF mn \in LoadUpperOps THEN ParseLoadUpper(inst, op, args, labels, syms, oc)
            ELSE IF mn \in Branch1RegOps THEN ParseBranch1Reg(inst, op, args, labels, syms, oc)
            ELSE IF mn \in Branch2RegOps THEN ParseBranch2Reg(inst, op, args, labels, syms, oc)
            ELSE IF mn \in JumpOps THEN ParseJump(inst, op, args, labels, syms, oc)
            ELSE IF mn \in NoOperandOps THEN ParseNoOperand(inst, op, args, labels, syms, oc)
            ELSE IF mn \in Reg3Ops THEN ParseReg3(inst, op, args, labels, syms, oc)
            ELSE IF mn \in ShiftImmOps THEN ParseShiftImm(inst, op, args, labels, syms, oc)
            ELSE IF mn \in ShiftRegOps THEN ParseShiftReg(inst, op, args, labels, syms, oc)
            ELSE IF mn \in CodeOps THEN ParseCode(inst, op, args, labels, syms, oc)
            ELSE IF mn \in Reg2Ops THEN ParseReg2(inst, op, args, labels, syms, oc)
            ELSE IF mn \in JalrOps THEN ParseJalr(inst, op, args, labels, syms, oc)
            ELSE IF mn \in MoveLikeOps THEN ParseMoveLike(inst, op, args, labels, syms, oc)
            ELSE IF mn \in BranchOffsetOps THEN ParseBranchOffset(inst, op, args, labels, syms, oc)
            ELSE IF mn \in LiOps THEN ParseLoadImmediate(inst, op, args, "i32", labels, syms, oc)
            ELSE IF mn \in DivOps THEN ParseDiv(inst, op, args, labels, syms, oc)
            ELSE IF mn \in Reg1Ops THEN ParseReg1(inst, op, args, labels, syms, oc)
            ELSE IF mn \in DestOnlyOps THEN ParseDestOnly(inst, op, args, labels, syms, oc)
            ELSE IF mn \in DliOps THEN ParseLoadImmediate(inst, op, args, "i64", labels, syms, oc)
            ELSE IF mn \in CopBranchOps THEN ParseBranchOffset(inst, op, args, labels, syms, oc)
            ELSE IF mn \in Cop0MoveOps THEN ParseCop0Move(inst, op, args, labels, syms, oc)
            ELSE IF mn \in Cop1MoveOps THEN ParseCop1Move(inst, op, args, labels, syms, oc)
            ELSE IF mn \in CopNoOperandOps THEN ParseNoOperand(inst, op, args, labels, syms, oc)
            ELSE IF mn \in FloatLoadStoreOps THEN ParseFloatLoadStore(inst, op, args, labels, syms, oc)
            ELSE ParseFallback(inst, op, args, labels, syms, oc)))))

(***************************************************************************)
(* The renderer: impl fmt::Display for Instruction (ast.rs).               *)
(***************************************************************************)
\* "\t    ", the gap the format strings put after the mnemonic
Gap == <<"\t", " ", " ", " ", " ">>

CommaSp == <<",", " ">>

\* impl fmt::LowerHex for Signed, under {:#x}: the sign, "0x" and the hex
\* of val.abs().  For val = i16::MIN, abs() overflows: a build with
\* overflow checks panics, one without leaves i16::MIN, printed as 8000.
SignedHex(imm, oc) ==
  Bind(AsI16(imm), LAMBDA val :
    IF val = -32768
    THEN IF oc THEN Panic("attempt to negate with overflow")
         ELSE Ok(<<"-", "0", "x">> \o HexOf(32768, HexDigitChars))
    ELSE Ok((IF val >= 0 THEN <<>> ELSE <<"-">>) \o <<"0", "x">>
            \o HexOf(IF val >= 0 THEN val ELSE -val, HexDigitChars)))

\* {:#x} of a u16
UnsignedHex(imm) == <<"0", "x">> \o HexOf(imm, HexDigitChars)

RegName(r) == RegisterNames[r + 1]

\* FloatRegister::from(r), displayed
FRegName(r) == FloatRegisterNames[r + 1]

IName(op) == EnumToString(op, ITypeOpNames, ITypeOps)
JName(op) == EnumToString(op, JTypeOpNames, JTypeOps)
RName(op) == EnumToString(op, RTypeOpNames, RTypeOps)

\* op.to_string().replace('_', ".")
DotName(op) ==
  Bind(RName(op), LAMBDA n :
    [i \in 1..Len(n) |-> IF n[i] = "_" THEN "." ELSE n[i]])

\* The Immediate arm, imm a number
DisplayImmediate(i, oc) ==
  LET op == i.op
      signed(prefix, suffix) ==
        AndThen(SignedHex(i.imm.val, oc), LAMBDA sh :
          Ok(IName(i.op) \o Gap \o prefix \o sh \o suffix))
  IN IF op \in {"Cache", "Lb", "Lbu", "Ld", "Ldl", "Ldr", "Lh", "Lhu", "Ll",
                "Lld", "Lw", "Lwl", "Lwr", "Lwu", "Sb", "Sc", "Scd", "Sd",
                "Sdl", "Sdr", "Sh", "Sw", "Swl", "Swr"}
     THEN signed(RegName(i.rt) \o CommaSp, <<"(">> \o RegName(i.rs) \o <<")">>)
     ELSE IF op \in {"Addi", "Addiu", "Daddi", "Daddiu", "Slti", "Sltiu"}
     THEN signed(RegName(i.rt) \o CommaSp \o RegName(i.rs) \o CommaSp, <<>>)
     ELSE IF op \in {"Andi", "Ori", "Xori"}
     THEN Ok(IName(op) \o Gap \o RegName(i.rt) \o CommaSp \o RegName(i.rs)
             \o CommaSp \o UnsignedHex(i.imm.val))
     ELSE IF op = "Lui"
     THEN Ok(IName(op) \o Gap \o RegName(i.rt) \o CommaSp \o UnsignedHex(i.imm.val))
     ELSE IF op \in {"Beqz", "Bgtz", "Bgtzl", "Blez", "Blezl", "Bnez"}
     THEN signed(RegName(i.rs) \o CommaSp, <<>>)
     ELSE IF op \in {"Beq", "Beql", "Bne", "Bnel"}
     THEN signed(RegName(i.rs) \o CommaSp \o RegName(i.rt) \o CommaSp, <<>>)
     ELSE IF op \in {"Bgez", "Bgezal", "Bgezall", "Bgezl", "Bltz", "Bltzal",
                     "Bltzall", "Bltzl", "Teqi", "Tgei", "Tgeiu", "Tlti",
                     "Tltiu", "Tnei"}
     THEN signed(RegName(i.rs) \o CommaSp, <<>>)
     ELSE IF op \in {"Bc0f", "Bc1f", "Bc0fl", "Bc1fl", "Bc0t", "Bc1t",
                     "Bc0tl", "Bc1tl"}
     THEN signed(<<>>, <<>>)
     ELSE \* Ldc1 | Lwc1 | Sdc1 | Swc1
          signed(FRegName(i.rt) \o CommaSp, <<"(">> \o RegName(i.rs) \o <<")">>)

\* The Jump arm, target an address: "{}\t    {:#X?}"
DisplayJump(i) ==
  Ok(JName(i.op) \o Gap \o <<"0", "x">>
     \o HexOfU32(i.target.addr, HexDigitCharsUpper))

\* impl TryFrom<u16> for FloatCond, displayed; sa is the stored code
FloatCondName(sa) ==
  IF sa.hi = 0 /\ sa.lo \in 0..15 THEN Ok(FloatCondNames[sa.lo + 1])
  ELSE Panic("called Result::unwrap() on an Err value")

\* The Register arm
DisplayRegister(i) ==
  Bind(RName(i.op), LAMBDA n :
  LET op == i.op
      rd == RegName(i.rd)
      rs == RegName(i.rs)
      rt == RegName(i.rt)
      compare(fmt) ==
        AndThen(FloatCondName(i.sa), LAMBDA c :
          Ok(<<"c", ".">> \o c \o <<".", fmt>>
             \o (IF i.sa = U32(0, 9) THEN <<" ", " ", " ", " ">> ELSE Gap)
             \o FRegName(i.rs) \o CommaSp \o FRegName(i.rt)))
  IN IF op = "Sync" THEN Ok(n)
     ELSE IF op \in {"Add", "Addu", "And", "Dadd", "Daddu", "Dsub", "Dsubu",
                     "Nor", "Or", "Slt", "Sltu", "Sub", "Subu", "Xor"}
     THEN Ok(n \o Gap \o rd \o CommaSp \o rs \o CommaSp \o rt)
     ELSE IF op \in {"Dsll", "Dsll32", "Dsra", "Dsra32", "Dsrl", "Dsrl32",
                     "Sll", "Sra", "Srl"}
     THEN Ok(n \o Gap \o rd \o CommaSp \o rt \o CommaSp \o <<"0", "x">>
             \o HexOfU32(i.sa, HexDigitChars))
     ELSE IF op \in {"Dsllv", "Dsrav", "Dsrlv", "Sllv", "Srav", "Srlv"}
     THEN Ok(n \o Gap \o rd \o CommaSp \o rt \o CommaSp \o rs)
     ELSE IF op \in {"Break", "Syscall"}
     THEN Ok(n)
     ELSE IF op \in {"Ddiv", "Ddivu", "Div", "Divu", "Dmult", "Dmultu", "Mult",
                     "Multu", "Teq", "Tge", "Tgeu", "Tlt", "Tltu", "Tne"}
     THEN Ok(n \o Gap \o rs \o CommaSp \o rt)
     ELSE IF op = "Jalr"
     THEN IF i.rd = RegisterRa THEN Ok(n \o Gap \o rs)
          ELSE Ok(n \o Gap \o rd \o CommaSp \o rs)
     ELSE IF op \in {"Jr", "Mthi", "Mtlo"}
     THEN Ok(n \o Gap \o rs)
     ELSE IF op \in {"Mfhi", "Mflo"}
     THEN Ok(n \o Gap \o rd)
     ELSE IF op \in {"Dmfc0", "Dmtc0", "Mfc0", "Mtc0"}
     THEN Ok(n \o Gap \o rt \o CommaSp \o rd)
     ELSE IF op \in {"Cfc1", "Ctc1", "Dmfc1", "Dmtc1", "Mfc1", "Mtc1"}
     THEN Ok(n \o Gap \o rt \o CommaSp \o FRegName(i.rd))
     ELSE IF op \in {"Eret", "Tlbp", "Tlbr", "Tlbwi", "Tlbwr"}
     THEN Ok(n)
     ELSE IF op \in {"AddS", "AddD", "SubS", "SubD", "MulS", "MulD", "DivS", "DivD"}
     THEN Ok(DotName(op) \o Gap \o FRegName(i.rd) \o CommaSp \o FRegName(i.rs)
             \o CommaSp \o FRegName(i.rt))
     ELSE IF op \in {"AbsS", "AbsD", "CvtDS", "CvtDW", "CvtDL", "CvtLS", "CvtLD",
                     "CvtSD", "CvtSW", "CvtSL", "CvtWD", "CvtWS", "MovS", "MovD",
                     "NegS", "NegD", "SqrtS", "SqrtD"}
     THEN Ok(DotName(op) \o Gap \o FRegName(i.rd) \o CommaSp \o FRegName(i.rs))
     ELSE IF op \in {"CeilLS", "CeilLD", "CeilWS", "CeilWD"}
     THEN Ok(DotName(op) \o <<" ", " ", " ", " ">> \o FRegName(i.rd) \o CommaSp
             \o FRegName(i.rs))
     ELSE IF op = "Cs" THEN compare("s")
     ELSE IF op = "Cd" THEN compare("d")
     ELSE \* Floor* | Round* | Trunc*
          Ok(DotName(op) \o <<" ", " ", " ">> \o FRegName(i.rd) \o CommaSp
             \o FRegName(i.rs)))

\* impl fmt::Display for Instruction: the text, or a panic for an
\* instruction that still holds a symbolic operand
Display(i, oc) ==
  IF i.kind = "Immediate" /\ i.imm.tag = "Int" THEN DisplayImmediate(i, oc)
  ELSE IF i.kind = "Jump" /\ i.target.tag = "Address" THEN DisplayJump(i)
  ELSE IF i.kind = "Register" THEN DisplayRegister(i)
  ELSE Panic("Invalid instruction")

(***************************************************************************)
(* The label resolver (parser.rs, Parser::adjust_labels).                  *)
(***************************************************************************)
\* A faulty iteration that rewrites branches only and leaves a jump's label
\* in place; C11 must tell it from AdjustOne
AdjustOneBranchOnly(inst, i, labels, base_addr, oc) ==
  IF inst.kind = "Immediate" /\ inst.imm.tag = "Label"
  THEN IF inst.imm.name \notin DOMAIN labels
       THEN Panic("called Option::unwrap() on a None value")
       ELSE Ok(IInst(inst.op, inst.rs, inst.rt,
                     ImmInt((labels[inst.imm.name] - (i + 1)) % TwoTo16)))
  ELSE Ok(inst)

\* A faulty iteration that leaves an instruction whose label is not in the
\* table as it is; C24 must tell it from AdjustOne
AdjustOneSkipMissing(inst, i, labels, base_addr, oc) ==
  IF inst.kind = "Immediate" /\ inst.imm.tag = "Label"
  THEN IF inst.imm.name \notin DOMAIN labels
       THEN Ok(inst)
       ELSE Ok(IInst(inst.op, inst.rs, inst.rt,
                     ImmInt((labels[inst.imm.name] - (i + 1)) % TwoTo16)))
  ELSE IF inst.kind = "Jump" /\ inst.target.tag = "Label"
  THEN IF inst.target.name \notin DOMAIN labels
       THEN Ok(inst)
       ELSE Bind(AddU32(base_addr, labels[inst.target.name] * 4), LAMBDA a :
              IF a.ovf /\ oc THEN Panic("attempt to add with overflow")
              ELSE Ok(JInst(inst.op, TargetAddress(a.val))))
  ELSE Ok(inst)

\* A faulty iteration that clears rt when it rewrites a branch; C26 must
\* tell it from AdjustOne
AdjustOneClearRt(inst, i, labels, base_addr, oc) ==
  IF inst.kind = "Immediate" /\ inst.imm.tag = "Label"
  THEN IF inst.imm.name \notin DOMAIN labels
       THEN Panic("called Option::unwrap() on a None value")
       ELSE Ok(IInst(inst.op, inst.rs, RegisterNull,
                     ImmInt((labels[inst.imm.name] - (i + 1)) % TwoTo16)))
  ELSE IF inst.kind = "Jump" /\ inst.target.tag = "Label"
  THEN IF inst.target.name \notin DOMAIN labels
       THEN Panic("called Option::unwrap() on a None value")
       ELSE Bind(AddU32(base_addr, labels[inst.target.name] * 4), LAMBDA a :
              IF a.ovf /\ oc THEN Panic("attempt to add with overflow")
              ELSE Ok(JInst(inst.op, TargetAddress(a.val))))
  ELSE Ok(inst)

\* A faulty iteration that counts a branch's offset from the branch itself
\* and not from the instruction after it; C29 must tell it from AdjustOne
AdjustOneFromBranch(inst, i, labels, base_addr, oc) ==
  IF inst.kind = "Immediate" /\ inst.imm.tag = "Label"
  THEN IF inst.imm.name \notin DOMAIN labels
       THEN Panic("called Option::unwrap() on a None value")
       ELSE Ok(IInst(inst.op, inst.rs, inst.rt,
                     ImmInt((labels[inst.imm.name] - i) % TwoTo16)))
  ELSE IF inst.kind = "Jump" /\ inst.target.tag = "Label"
  THEN IF inst.target.name \notin DOMAIN labels
       THEN Panic("called Option::unwrap() on a None value")
       ELSE Bind(AddU32(base_addr, labels[inst.target.name] * 4), LAMBDA a :
              IF a.ovf /\ oc THEN Panic("attempt to add with overflow")
              ELSE Ok(JInst(inst.op, TargetAddress(a.val))))
  ELSE Ok(inst)

\* One iteration of the loop, for the instruction at zero-based index i
AdjustOne(inst, i, labels, base_addr, oc) ==
  IF inst.kind = "Immediate" /\ inst.imm.tag = "Label"
  THEN IF inst.imm.name \notin DOMAIN labels
       THEN Panic("called Option::unwrap() on a None value")
       ELSE Ok(IInst(inst.op, inst.rs, inst.rt,
                     ImmInt((labels[inst.imm.name] - (i + 1)) % TwoTo16)))
  ELSE IF inst.kind = "Jump" /\ inst.target.tag = "Label"
  THEN IF inst.target.name \notin DOMAIN labels
       THEN Panic("called Option::unwrap() on a None value")
       ELSE Bind(AddU32(base_addr, labels[inst.target.name] * 4), LAMBDA a :
              IF a.ovf /\ oc THEN Panic("attempt to add with overflow")
              ELSE Ok(JInst(inst.op, TargetAddress(a.val))))
  ELSE Ok(inst)

\* Parser::adjust_labels: every instruction in index order; the first
\* panic aborts the pass
adjust_labels(insts, labels, base_addr, oc) ==
  Try([k \in 1..Len(insts) |->
         AdjustOne(insts[k], k - 1, labels, base_addr, oc)],
      LAMBDA v : v)

\* A faulty label index, one past the instruction count; C10 must tell it
\* from LabelIndex
LabelIndexNext(is) == Len(is) + 1

\* self.insts.len() as isize: the index a label declaration records
LabelIndex(is) == Len(is)

\* Parser::parse_label: the label line's name, or the duplicate error
parse_label(label, labels) ==
  IF label \in DOMAIN labels
  THEN Err("MultipleLabelDefinition", label)
  ELSE Ok(TrimEndMatches(label, ":"))

\* HashMap::insert
MapInsert(m, k, v) ==
  [x \in DOMAIN m \cup {k} |-> IF x = k THEN v ELSE m[x]]

\* HashMap::new()
EmptyMap == [x \in {} |-> 0]

(***************************************************************************)
(* The encoder and the decoder.  Their sources (the assembler and          *)
(* disassembler modules bin.rs calls) are not among the source files, so   *)
(* they are modelled from the design: three word layouts, a direct opcode   *)
(* lookup, and dispatch on the major opcode and, for SPECIAL, the function  *)
(* field.  The opcode tables hold the architecture's codes for a            *)
(* representative set of operations.                                        *)
(***************************************************************************)
\* major opcode of an immediate-class operation
ImmediateOpcodes ==
  << <<"Beq", 4>>, <<"Bne", 5>>, <<"Addi", 8>>, <<"Addiu", 9>>, <<"Andi", 12>>,
     <<"Ori", 13>>, <<"Lui", 15>>, <<"Lb", 32>>, <<"Lw", 35>>, <<"Sw", 43>> >>

\* major opcode of a jump-class operation
JumpOpcodes == << <<"J", 2>>, <<"Jal", 3>> >>

\* function code of a register-class operation under major opcode SPECIAL
RegisterFuncts ==
  << <<"Sll", 0>>, <<"Srl", 2>>, <<"Jr", 8>>, <<"Jalr", 9>>, <<"Syscall", 12>>,
     <<"Break", 13>>, <<"Mult", 24>>, <<"Div", 26>>, <<"Add", 32>>,
     <<"Addu", 33>>, <<"Sub", 34>>, <<"And", 36>>, <<"Or", 37>> >>

\* the code a table gives an operation / the table's operation for a code
CodeOf(table, op) == table[CHOOSE k \in 1..Len(table) : table[k][1] = op][2]
HasCode(table, code) == \E k \in 1..Len(table) : table[k][2] = code
OpOf(table, code) == table[CHOOSE k \in 1..Len(table) : table[k][2] = code][1]
InTable(table, op) == \E k \in 1..Len(table) : table[k][1] = op

\* whether the opcode tables of the model hold the instruction's operation
Encodable(i) ==
  \/ i.kind = "Immediate" /\ InTable(ImmediateOpcodes, i.op)
  \/ i.kind = "Jump" /\ InTable(JumpOpcodes, i.op)
  \/ i.kind = "Register" /\ InTable(RegisterFuncts, i.op)

\* A faulty encoder, rs and rt exchanged in the word; C1 must tell it from
\* Encode
EncodeSwapped(i) ==
  IF i.kind = "Immediate"
  THEN Ok(U32(CodeOf(ImmediateOpcodes, i.op) * 1024 + i.rt * 32 + i.rs,
              i.imm.val))
  ELSE IF i.kind = "Jump"
  THEN LET t == (i.target.addr.hi % 4096) * 16384 + (i.target.addr.lo \div 4)
       IN Ok(U32(CodeOf(JumpOpcodes, i.op) * 1024 + (t \div TwoTo16),
                 t % TwoTo16))
  ELSE Ok(U32(i.rt * 32 + i.rs,
              i.rd * 2048 + (i.sa.lo % 32) * 64 + CodeOf(RegisterFuncts, i.op)))

\* Encoder: instruction -> 32-bit word, by bit-field packing
\*   immediate-class  opcode(6) | rs(5) | rt(5) | immediate(16)
\*   jump-class       opcode(6) | target(26), the word address shifted
\*   register-class   SPECIAL(6) | rs(5) | rt(5) | rd(5) | sa(5) | funct(6)
Encode(i) ==
  IF i.kind = "Immediate"
  THEN IF i.imm.tag # "Int" THEN Panic("unresolved symbolic operand")
       ELSE Ok(U32(CodeOf(ImmediateOpcodes, i.op) * 1024 + i.rs * 32 + i.rt,
                   i.imm.val))
  ELSE IF i.kind = "Jump"
  THEN IF i.target.tag # "Address" THEN Panic("unresolved symbolic operand")
       ELSE LET t == (i.target.addr.hi % 4096) * 16384 + (i.target.addr.lo \div 4)
            IN Ok(U32(CodeOf(JumpOpcodes, i.op) * 1024 + (t \div TwoTo16),
                      t % TwoTo16))
  ELSE Ok(U32(i.rs * 32 + i.rt,
              i.rd * 2048 + (i.sa.lo % 32) * 64 + CodeOf(RegisterFuncts, i.op)))

\* Decoder: 32-bit word -> instruction, or the unknown-encoding result
Decode(w) ==
  LET opcode == w.hi \div 1024
      rs == (w.hi \div 32) % 32
      rt == w.hi % 32
  IN IF opcode = 0
     THEN IF HasCode(RegisterFuncts, w.lo % 64)
          THEN Ok(RInst(OpOf(RegisterFuncts, w.lo % 64), rs, rt,
                        w.lo \div 2048, U32(0, (w.lo \div 64) % 32)))
          ELSE Err("UnknownEncoding", <<>>)
     ELSE IF HasCode(JumpOpcodes, opcode)
     THEN LET t == (w.hi % 1024) * TwoTo16 + w.lo
          IN Ok(JInst(OpOf(JumpOpcodes, opcode),
                      TargetAddress(U32(t \div 16384, (t % 16384) * 4))))
     ELSE IF HasCode(ImmediateOpcodes, opcode)
     THEN Ok(IInst(OpOf(ImmediateOpcodes, opcode), rs, rt, ImmInt(w.lo)))
     ELSE Err("UnknownEncoding", <<>>)

(***************************************************************************)
(* Sources given to the model.                                             *)
(***************************************************************************)
\* ".a:"  ".b:"  -- label declarations
LabelLineA == <<".", "a", ":">>
LabelLineB == <<".", "b", ":">>
\* "add $t0, $t1, $t2"
AddLine == <<"a", "d", "d", " ", "$", "t", "0", ",", " ", "$", "t", "1", ",", " ", "$", "t", "2">>
\* "beq $t0, $t1, .a"  -- a branch naming label .a
BranchLineA == <<"b", "e", "q", " ", "$", "t", "0", ",", " ", "$", "t", "1", ",", " ", ".", "a">>
\* "j .b"  -- a jump naming label .b
JumpLineB == <<"j", " ", ".", "b">>
\* "j ~Func:f"  -- a jump naming a function
FuncJumpLine == <<"j", " ", "~", "F", "u", "n", "c", ":", "f">>

\* "  "  -- a line of two spaces
SpaceLine == <<" ", " ">>

\* the empty line
EmptyLine == <<>>
\* "lw $v0, 4($sp)"
LwLine == <<"l", "w", " ", "$", "v", "0", ",", " ", "4", "(", "$", "s", "p", ")">>

\* the lines a source is made of
SrcLines ==
  {LabelLineA, LabelLineB, AddLine, BranchLineA, JumpLineB, FuncJumpLine,
   EmptyLine, SpaceLine}

\* the sources: what input.lines() yields, at most MaxLines lines
Sources == UNION {[1..n -> SrcLines] : n \in 0..MaxLines}

\* 0x80000000, the command line's default base address (bin.rs), and
\* 0xFFFFFFFC, the last word of the address space
BaseAddrs == {U32(32768, 0), U32(65535, 65532)}

\* register operands of generated single lines, with their ordinals
RegTokens == << [text |-> <<"$", "t", "0">>, ord |-> 8],
                [text |-> <<"$", "t", "1">>, ord |-> 9],
                [text |-> <<"$", "t", "2">>, ord |-> 10] >>

\* one mnemonic of every operand template of parse_inst
Mnemonics ==
  { <<"l", "w">>,
    <<"a", "d", "d", "i">>,
    <<"l", "u", "i">>,
    <<"b", "g", "e", "z">>,
    <<"b", "e", "q">>,
    <<"j">>,
    <<"s", "y", "n", "c">>,
    <<"a", "d", "d">>,
    <<"a", "n", "d">>,
    <<"s", "l", "l">>,
    <<"s", "l", "l", "v">>,
    <<"m", "u", "l", "t">>,
    <<"m", "o", "v", "e">>,
    <<"b">>,
    <<"l", "i">>,
    <<"j", "r">>,
    <<"m", "f", "h", "i">>,
    <<"d", "l", "i">>,
    <<"b", "c", "1", "t">>,
    <<"m", "f", "c", "0">>,
    <<"m", "f", "c", "1">>,
    <<"e", "r", "e", "t">>,
    <<"l", "w", "c", "1">>,
    <<"a", "d", "d", ".", "s">>,
    <<"a", "b", "s", ".", "s">>,
    <<"c", ".", "e", "q", ".", "s">>,
    <<"b", "r", "e", "a", "k">>,
    <<"j", "a", "l", "r">>,
    <<"d", "i", "v">> }

\* operand lists of up to MaxArgs register operands
ArgLists == UNION {[1..n -> 1..Len(RegTokens)] : n \in 0..MaxArgs}

\* operands of generated load/store lines: rt, offset, base
LoadStoreMnemonics == { <<"l", "w">>,
    <<"s", "w">>,
    <<"l", "b">> }
RtTokens == << [text |-> <<"$", "v", "0">>, ord |-> 2], [text |-> <<"$", "t", "0">>, ord |-> 8] >>
BaseTokens == << [text |-> <<"$", "s", "p">>, ord |-> 29], [text |-> <<"$", "t", "1">>, ord |-> 9] >>
OffsetTokens == << [text |-> <<"4">>, val |-> 4],
                   [text |-> <<"0">>, val |-> 0],
                   [text |-> <<"-", "4">>, val |-> 65532],
                   [text |-> <<"0", "x", "1", "0">>, val |-> 16],
                   [text |-> <<>>, val |-> 0],
                   [text |-> <<"%", "l", "o", "(", "0", "x", "1", "0", ")">>, val |-> 16],
                   [text |-> <<"%", "h", "i", "(", "0", "x", "1", "0", "0", "0", "0", ")">>, val |-> 1] >>

\* operands of generated float load/store lines: ft
FloatLoadStoreMnemonics == { <<"l", "w", "c", "1">>,
    <<"s", "w", "c", "1">> }
FtTokens == << [text |-> <<"$", "f", "2">>, ord |-> 2], [text |-> <<"$", "f", "0">>, ord |-> 0] >>

RECURSIVE JoinArgs(_)
\* the operands separated by ", "
JoinArgs(args) ==
  IF Len(args) = 0 THEN <<>>
  ELSE IF Len(args) = 1 THEN args[1]
  ELSE args[1] \o <<",", " ">> \o JoinArgs(Tail(args))

\* the text of a line: the mnemonic, a space and the operands
LineOf(mn, args) ==
  IF Len(args) = 0 THEN mn ELSE mn \o <<" ">> \o JoinArgs(args)

\* generated lines, each with the mnemonic and operands it was built from
RegLineSources ==
  {[mn |-> m, args |-> [k \in DOMAIN a |-> RegTokens[a[k]].text],
    ords |-> [k \in DOMAIN a |-> RegTokens[a[k]].ord], form |-> "registers"] :
     m \in Mnemonics, a \in ArgLists}

LoadStoreLineSources ==
  {[mn |-> m,
    args |-> <<RtTokens[r].text,
               OffsetTokens[o].text \o <<"(">> \o BaseTokens[b].text \o <<")">> >>,
    ords |-> <<RtTokens[r].ord, OffsetTokens[o].val, BaseTokens[b].ord>>,
    form |-> "offset(base)"] :
     m \in LoadStoreMnemonics, r \in DOMAIN RtTokens,
     o \in DOMAIN OffsetTokens, b \in DOMAIN BaseTokens}

FloatLoadStoreLineSources ==
  {[mn |-> m,
    args |-> <<FtTokens[r].text,
               OffsetTokens[o].text \o <<"(">> \o BaseTokens[b].text \o <<")">> >>,
    ords |-> <<FtTokens[r].ord, OffsetTokens[o].val, BaseTokens[b].ord>>,
    form |-> "float offset(base)"] :
     m \in FloatLoadStoreMnemonics, r \in DOMAIN FtTokens,
     o \in DOMAIN OffsetTokens, b \in DOMAIN BaseTokens}

\* lines with one operand that names no register: rt or base of a
\* load/store, the op-code of cache, an operand of a register template
BadRegLineSources ==
  {[mn |-> m, args |-> <<<<"$", "x", "x">>, <<"4", "(", "$", "s", "p", ")">>>>, ords |-> <<>>,
    form |-> "bad register"] : m \in LoadStoreMnemonics}
  \cup {[mn |-> m, args |-> <<<<"$", "v", "0">>, <<"4", "(", "$", "x", "x", ")">>>>, ords |-> <<>>,
         form |-> "bad register"] : m \in LoadStoreMnemonics}
  \cup {[mn |-> <<"c", "a", "c", "h", "e">>, args |-> <<<<"3", "2">>, <<"0", "(", "$", "s", "p", ")">>>>, ords |-> <<>>,
         form |-> "bad register"]}
  \cup {[mn |-> m,
         args |-> [k \in 1..3 |-> IF k = b THEN <<"$", "x", "x">> ELSE RegTokens[k].text],
         ords |-> <<>>, form |-> "bad register"] :
          m \in {<<"a", "d", "d">>, <<"a", "n", "d">>, <<"s", "l", "l", "v">>}, b \in 1..3}
  \cup {[mn |-> m, args |-> <<<<"$", "x", "x">>>>, ords |-> <<>>,
         form |-> "bad register"] : m \in {<<"j", "r">>, <<"m", "f", "h", "i">>}}

\* lines whose mnemonic is the name of no operation
UnknownMnemonics == {<<"x">>, <<"z", "z">>, <<"f", "o", "o">>, <<"a", "d", "d", ".", "x">>}

UnknownLineSources ==
  {[mn |-> m, args |-> a, ords |-> <<>>, form |-> "unknown mnemonic"] :
     m \in UnknownMnemonics,
     a \in {<<>>, <<<<"$", "t", "0">>>>, <<<<"$", "f", "0">>, <<"$", "f", "1">>, <<"$", "f", "2">>>>}}

\* numeric immediate literals, decimal and 0x-hex, with the number each
\* denotes, on both sides of the 16-bit bounds
ImmLiterals ==
  { [text |-> <<"0">>, val |-> 0],
    [text |-> <<"3", "2", "7", "6", "7">>, val |-> 32767],
    [text |-> <<"3", "2", "7", "6", "8">>, val |-> 32768],
    [text |-> <<"6", "5", "5", "3", "5">>, val |-> 65535],
    [text |-> <<"6", "5", "5", "3", "6">>, val |-> 65536],
    [text |-> <<"-", "1">>, val |-> -1],
    [text |-> <<"-", "3", "2", "7", "6", "8">>, val |-> -32768],
    [text |-> <<"-", "3", "2", "7", "6", "9">>, val |-> -32769],
    [text |-> <<"0", "x", "7", "f", "f", "f">>, val |-> 32767],
    [text |-> <<"0", "x", "8", "0", "0", "0">>, val |-> 32768],
    [text |-> <<"0", "x", "f", "f", "f", "f">>, val |-> 65535],
    [text |-> <<"0", "x", "1", "0", "0", "0", "0">>, val |-> 65536],
    [text |-> <<"-", "0", "x", "8", "0", "0", "0">>, val |-> -32768],
    [text |-> <<"-", "0", "x", "8", "0", "0", "1">>, val |-> -32769] }

\* mnemonics of the templates that take a numeric immediate, in lower case
\* and, for some, in upper case
ImmMnemonics ==
  { <<"a", "n", "d", "i">>, <<"o", "r", "i">>, <<"x", "o", "r", "i">>, <<"l", "u", "i">>, <<"a", "d", "d", "i">>, <<"a", "d", "d", "i", "u">>, <<"l", "w">>, <<"b", "e", "q">>,
    <<"b", "g", "e", "z">>, <<"l", "i">>, <<"d", "l", "i">>, <<"A", "N", "D", "I">>, <<"O", "R", "I">>, <<"X", "O", "R", "I">>, <<"L", "U", "I">>, <<"A", "D", "D", "I">>, <<"L", "W">> }

\* the operands of mnemonic m around the immediate text t
ImmArgs(m, t) ==
  IF ToLowercase(m) \in {<<"l", "u", "i">>, <<"l", "i">>, <<"d", "l", "i">>, <<"b", "g", "e", "z">>} THEN <<<<"$", "t", "0">>, t>>
  ELSE IF ToLowercase(m) = <<"l", "w">> THEN <<<<"$", "t", "0">>, t \o <<"(", "$", "t", "1", ")">>>>
  ELSE <<<<"$", "t", "0">>, <<"$", "t", "1">>, t>>

\* lines with a numeric immediate; ords holds the number the literal denotes
ImmLineSources ==
  {[mn |-> m, args |-> ImmArgs(m, l.text), ords |-> <<l.val>>,
    form |-> "immediate"] : m \in ImmMnemonics, l \in ImmLiterals}

\* shift-immediate lines; ords holds the shift amount when the text is a
\* number in 0..31, and is empty otherwise
ShiftMnemonics == { <<"s", "l", "l">>, <<"s", "r", "a">>, <<"d", "s", "r", "l", "3", "2">> }
ShiftAmounts ==
  { [text |-> <<"0">>, ords |-> <<0>>],
    [text |-> <<"5">>, ords |-> <<5>>],
    [text |-> <<"3", "1">>, ords |-> <<31>>],
    [text |-> <<"0", "x", "1", "f">>, ords |-> <<31>>],
    [text |-> <<"3", "2">>, ords |-> <<>>],
    [text |-> <<"0", "x", "2", "0">>, ords |-> <<>>],
    [text |-> <<"-", "1">>, ords |-> <<>>],
    [text |-> <<"x">>, ords |-> <<>>] }
ShiftLineSources ==
  {[mn |-> m, args |-> <<<<"$", "t", "0">>, <<"$", "t", "1">>, a.text>>,
    ords |-> a.ords, form |-> "shift"] : m \in ShiftMnemonics, a \in ShiftAmounts}

LineSources ==
  RegLineSources \cup LoadStoreLineSources \cup BadRegLineSources
  \cup UnknownLineSources \cup ImmLineSources \cup FloatLoadStoreLineSources \cup ShiftLineSources

\* the symbol tables a caller supplies: none, or one whose keys look like a
\* label, a function reference, a number and a plain name
ImportedSyms ==
  (<<".", "a">> :> U32(32768, 4096)) @@ (<<"~", "F", "u", "n", "c", ":", "f">> :> U32(32768, 8192))
    @@ (<<"0", "x", "1", "0">> :> U32(32768, 12288)) @@ (<<"m", "a", "i", "n">> :> U32(32768, 32768))
SymTables == {EmptyMap, ImportedSyms}

\* targets of %hi(..) and %lo(..) with the address each resolves to; the
\* last is a symbol and resolves only where the table imports it
AddrTokens ==
  { [text |-> <<"0", "x", "0">>, addr |-> U32(0, 0), sym |-> FALSE],
    [text |-> <<"0", "x", "8", "0", "0", "0">>, addr |-> U32(0, 32768), sym |-> FALSE],
    [text |-> <<"0", "x", "1", "0", "0", "0", "0">>, addr |-> U32(1, 0), sym |-> FALSE],
    [text |-> <<"0", "x", "1", "2", "3", "4", "7", "f", "f", "f">>, addr |-> U32(4660, 32767), sym |-> FALSE],
    [text |-> <<"0", "x", "1", "2", "3", "4", "8", "0", "0", "0">>, addr |-> U32(4660, 32768), sym |-> FALSE],
    [text |-> <<"0", "x", "f", "f", "f", "f", "7", "f", "f", "f">>, addr |-> U32(65535, 32767), sym |-> FALSE],
    [text |-> <<"0", "x", "f", "f", "f", "f", "8", "0", "0", "0">>, addr |-> U32(65535, 32768), sym |-> FALSE],
    [text |-> <<"0", "x", "f", "f", "f", "f", "f", "f", "f", "f">>, addr |-> U32(65535, 65535), sym |-> FALSE],
    [text |-> <<"m", "a", "i", "n">>, addr |-> U32(32768, 32768), sym |-> TRUE] }

\* immediate operands %hi(t) and %lo(t)
RelocSources ==
  {[kind |-> "relocation", part |-> p,
    text |-> <<"%">> \o p \o <<"(">> \o a.text \o <<")">>,
    target |-> a.text, addr |-> a.addr, sym |-> a.sym] :
     p \in {<<"h", "i">>, <<"l", "o">>}, a \in AddrTokens}

\* jump-target tokens with the class each has when the symbol table does
\* not hold it: a function reference, a label reference, a hex or decimal
\* (trailing backquote) address, or none of these
TargetSources ==
  { [kind |-> "target", text |-> <<".", "a">>, class |-> "label", name |-> <<".", "a">>, addr |-> Zero32],
    [kind |-> "target", text |-> <<".", "b">>, class |-> "label", name |-> <<".", "b">>, addr |-> Zero32],
    [kind |-> "target", text |-> <<"~", "F", "u", "n", "c", ":", "f">>, class |-> "function", name |-> <<"f">>, addr |-> Zero32],
    [kind |-> "target", text |-> <<"~", "F", "u", "n", "c", ":", "g">>, class |-> "function", name |-> <<"g">>, addr |-> Zero32],
    [kind |-> "target", text |-> <<"0", "x", "1", "0">>, class |-> "address", name |-> <<>>, addr |-> U32(0, 16)],
    [kind |-> "target", text |-> <<"8", "0", "0", "0", "1", "0", "0", "0">>, class |-> "address", name |-> <<>>, addr |-> U32(32768, 4096)],
    [kind |-> "target", text |-> <<"1", "6">> \o <<Backtick>>, class |-> "address", name |-> <<>>, addr |-> U32(0, 16)],
    [kind |-> "target", text |-> <<"m", "a", "i", "n">>, class |-> "invalid", name |-> <<>>, addr |-> Zero32],
    [kind |-> "target", text |-> <<"z", "z">>, class |-> "invalid", name |-> <<>>, addr |-> Zero32],
    [kind |-> "target", text |-> <<>>, class |-> "invalid", name |-> <<>>, addr |-> Zero32] }

\* str::to_uppercase on ASCII
ToUppercase(s) ==
  [i \in 1..Len(s) |->
     IF \E j \in 1..26 : LowerChars[j] = s[i]
     THEN UpperChars[CHOOSE j \in 1..26 : LowerChars[j] = s[i]]
     ELSE s[i]]

\* the texts of general register n: its name in lower and upper case, with
\* and without "$", and its numeric form rN
RegisterForms(n) ==
  {RegisterNames[n + 1], ToUppercase(RegisterNames[n + 1]),
   <<"$">> \o RegisterNames[n + 1],
   <<"$">> \o ToUppercase(RegisterNames[n + 1]),
   <<"r">> \o DecOf(n), <<"$", "r">> \o DecOf(n)}

\* the texts of float register n: its numeric form fN, with and without "$"
FloatRegisterForms(n) ==
  {<<"f">> \o DecOf(n), <<"$", "f">> \o DecOf(n)}

\* texts that name no general register / no float register
NoRegisterTexts == {<<"x", "x">>, <<>>, <<"r", "3", "2">>, <<"$", "$", "t", "0">>, <<"$">>}
NoFloatRegisterTexts == {<<"x", "x">>, <<>>, <<"f", "3", "2">>, <<"t", "0">>}

\* register operands with the ordinal each names, or none
RegisterSources ==
  UNION {{[kind |-> "register", text |-> t, ord |-> n, accept |-> TRUE] :
            t \in RegisterForms(n)} : n \in 0..31}
  \cup {[kind |-> "register", text |-> t, ord |-> 0, accept |-> FALSE] :
          t \in NoRegisterTexts}
  \cup UNION {{[kind |-> "float register", text |-> t, ord |-> n,
                accept |-> TRUE] : t \in FloatRegisterForms(n)} : n \in 0..31}
  \cup {[kind |-> "float register", text |-> t, ord |-> 0, accept |-> FALSE] :
          t \in NoFloatRegisterTexts}

\* the comparison conditions in the order of their ordinals 0..15
CondOrder ==
  << <<"f">>, <<"u", "n">>, <<"e", "q">>, <<"u", "e", "q">>, <<"o", "l", "t">>, <<"u", "l", "t">>, <<"o", "l", "e">>, <<"u", "l", "e">>,
     <<"s", "f">>, <<"n", "g", "l", "e">>, <<"s", "e", "q">>, <<"n", "g", "l">>, <<"l", "t">>, <<"n", "g", "e">>, <<"l", "e">>, <<"n", "g", "t">> >>

\* condition suffixes with the ordinal each names, suffixes that name
\* none, and ordinals to render
CondSources ==
  {[kind |-> "cond", text |-> CondOrder[n + 1], ord |-> n, accept |-> TRUE] :
     n \in 0..15}
  \cup {[kind |-> "cond", text |-> t, ord |-> 0, accept |-> FALSE] :
          t \in {<<"x", "x">>, <<>>, <<"g", "t">>, <<"n", "e">>, <<"e", "q", "q">>}}
  \cup {[kind |-> "ordinal", text |-> <<>>, ord |-> n, accept |-> n <= 15] :
          n \in 0..17}

\* single operands given to the operand parsers
OperandSources ==
  RelocSources \cup TargetSources \cup RegisterSources \cup CondSources

\* jalr with every pair of registers
JalrInsts ==
  {RInst("Jalr", rs, RegisterNull, rd, Zero32) : rs \in 0..31, rd \in 0..31}

\* resolved instructions given to the encoder and the renderer
Insts ==
  {IInst(op, rs, rt, ImmInt(imm)) :
     op \in {"Lw", "Addi", "Beq", "Lui"}, rs \in {0, 29}, rt \in {0, 2},
     imm \in {0, 4, 32768, 65535}}
  \cup {JInst(op, TargetAddress(a)) :
     op \in {"J", "Jal"},
     a \in {U32(0, 0), U32(0, 4), U32(0, 6), U32(4095, 65532), U32(32768, 0)}}
  \cup {RInst(op, rs, rt, rd, U32(0, sa)) :
     op \in {"Add", "Sll", "Jalr", "Div", "Break", "Syscall", "AddS", "Cs"},
     rs \in {0, 9}, rt \in {0, 10}, rd \in {0, 8}, sa \in {0, 5, 31, 32}}
  \cup JalrInsts

(***************************************************************************)
(* State.                                                                  *)
(***************************************************************************)
VARIABLES
  input,      \* Parser.input, as the lines input.lines() yields
  pos,        \* number of lines Parser::scan has consumed
  insts,      \* Parser.insts
  labels,     \* Parser.labels: label name -> instruction index
  base_addr,  \* Parser.base_addr
  syms,       \* Parser.syms: imported symbol -> address
  pc,         \* where scan() is: "scan", "done", "error", "panic", "idle"
  err,        \* the error or panic scan() ended with
  oc,         \* whether the build checks arithmetic overflow (debug/release)
  p_pc,       \* stage of a single-value pipeline, "idle" when none runs
  p_src,      \* the mnemonic and operands a generated line was built from
  p_inst,     \* the instruction given to the encoder or the renderer
  p_text,     \* a line of text: given to the parser, or rendered
  p_res,      \* the parser's result for p_text
  p_word,     \* the encoder's result
  p_dec       \* the decoder's result

ScanVars == <<input, pos, insts, labels, base_addr, syms, pc, err>>
PipeVars == <<p_pc, p_src, p_inst, p_text, p_res, p_word, p_dec>>
vars == <<ScanVars, PipeVars, oc>>

None == [tag |-> "None"]

ScanIdle ==
  /\ input = <<>> /\ pos = 0 /\ insts = <<>> /\ labels = EmptyMap
  /\ base_addr = U32(32768, 0) /\ syms = EmptyMap /\ pc = "idle" /\ err = None

PipeIdle ==
  /\ p_pc = "idle" /\ p_src = None /\ p_inst = None /\ p_text = None
  /\ p_res = None /\ p_word = None /\ p_dec = None

(***************************************************************************)
(* scan(input, base_addr, syms): Parser::new, Parser::scan, then           *)
(* Parser::adjust_labels.                                                  *)
(***************************************************************************)
\* Parser::new, for each source, base address and build
Init ==
  /\ input \in Sources
  /\ pos = 0
  /\ insts = <<>>
  /\ labels = EmptyMap
  /\ base_addr \in BaseAddrs
  /\ syms = EmptyMap
  /\ pc = "scan"
  /\ err = None
  /\ oc \in BOOLEAN
  /\ PipeIdle

\* Parser::scan_line on the next line of the source; an error ends scan()
ScanLine ==
  /\ pc = "scan"
  /\ pos < Len(input)
  /\ \E line \in {input[pos + 1]} :
       IF EndsWith(line, <<":">>)
       THEN \E r \in {parse_label(line, labels)} :
              IF r.tag = "Ok"
              THEN /\ labels' = MapInsert(labels, r.val, LabelIndex(insts))
                   /\ pos' = pos + 1
                   /\ UNCHANGED <<insts, pc, err>>
              ELSE /\ pc' = "error"
                   /\ err' = r
                   /\ UNCHANGED <<insts, labels, pos>>
       ELSE IF line # <<>>
       THEN \E r \in {parse_inst(line, DOMAIN labels, syms, oc)} :
              IF r.tag = "Ok"
              THEN /\ insts' = Append(insts, r.val)
                   /\ pos' = pos + 1
                   /\ UNCHANGED <<labels, pc, err>>
              ELSE /\ pc' = IF r.tag = "Panic" THEN "panic" ELSE "error"
                   /\ err' = r
                   /\ UNCHANGED <<insts, labels, pos>>
       ELSE /\ pos' = pos + 1
            /\ UNCHANGED <<insts, labels, pc, err>>
  /\ UNCHANGED <<input, base_addr, syms, oc, PipeVars>>

\* Parser::adjust_labels, once every line is scanned; scan() then returns
AdjustLabels ==
  /\ pc = "scan"
  /\ pos = Len(input)
  /\ \E r \in {adjust_labels(insts, labels, base_addr, oc)} :
       IF r.tag = "Ok"
       THEN /\ insts' = r.val
            /\ pc' = "done"
            /\ UNCHANGED err
       ELSE /\ pc' = "panic"
            /\ err' = r
            /\ UNCHANGED insts
  /\ UNCHANGED <<input, pos, labels, base_addr, syms, oc, PipeVars>>

Next == ScanLine \/ AdjustLabels

Spec == Init /\ [][Next]_vars

(***************************************************************************)
(* One line through the parser and the encoder.                            *)
(***************************************************************************)
InitLine ==
  /\ ScanIdle
  /\ oc \in BOOLEAN
  /\ p_src \in LineSources
  /\ p_text = LineOf(p_src.mn, p_src.args)
  /\ p_pc = "line"
  /\ p_inst = None /\ p_res = None /\ p_word = None /\ p_dec = None

\* parse_inst on the line, with no label declared and no symbol imported
ParseLine ==
  /\ p_pc = "line"
  /\ p_res' = parse_inst(p_text, DOMAIN labels, syms, oc)
  /\ p_pc' = "parsed"
  /\ UNCHANGED <<ScanVars, oc, p_src, p_inst, p_text, p_word, p_dec>>

\* the encoder on the parsed instruction
AssembleParsed ==
  /\ p_pc = "parsed"
  /\ p_res.tag = "Ok"
  /\ Encodable(p_res.val)
  /\ p_word' = Encode(p_res.val)
  /\ p_pc' = "assembled"
  /\ UNCHANGED <<ScanVars, oc, p_src, p_inst, p_text, p_res, p_dec>>

NextLine == ParseLine \/ AssembleParsed

SpecLine == InitLine /\ [][NextLine]_vars

(***************************************************************************)
(* One instruction through the encoder and decoder, and through the        *)
(* renderer and the parser.                                                *)
(***************************************************************************)
InitInst ==
  /\ ScanIdle
  /\ oc \in BOOLEAN
  /\ p_inst \in Insts
  /\ p_pc = "inst"
  /\ p_src = None /\ p_text = None /\ p_res = None /\ p_word = None
  /\ p_dec = None

\* the encoder on the instruction
Assemble ==
  /\ p_pc = "inst"
  /\ Encodable(p_inst)
  /\ p_word' = Encode(p_inst)
  /\ p_pc' = "encoded"
  /\ UNCHANGED <<ScanVars, oc, p_src, p_inst, p_text, p_res, p_dec>>

\* the decoder on the encoder's word
Disassemble ==
  /\ p_pc = "encoded"
  /\ p_word.tag = "Ok"
  /\ p_dec' = Decode(p_word.val)
  /\ p_pc' = "decoded"
  /\ UNCHANGED <<ScanVars, oc, p_src, p_inst, p_text, p_res, p_word>>

\* Display::fmt on the instruction
Render ==
  /\ p_pc = "inst"
  /\ p_text' = Display(p_inst, oc)
  /\ p_pc' = "rendered"
  /\ UNCHANGED <<ScanVars, oc, p_src, p_inst, p_res, p_word, p_dec>>

\* parse_inst on the rendered line
Reparse ==
  /\ p_pc = "rendered"
  /\ p_text.tag = "Ok"
  /\ p_res' = parse_inst(p_text.val, DOMAIN labels, syms, oc)
  /\ p_pc' = "reparsed"
  /\ UNCHANGED <<ScanVars, oc, p_src, p_inst, p_text, p_word, p_dec>>

NextInst == Assemble \/ Disassemble \/ Render \/ Reparse

SpecInst == InitInst /\ [][NextInst]_vars

(***************************************************************************)
(* One operand through the operand parsers: parse_immediate, parse_target, *)
(* the register names and the float conditions.                            *)
(***************************************************************************)
InitOperand ==
  /\ input = <<>> /\ pos = 0 /\ insts = <<>> /\ labels = EmptyMap
  /\ base_addr = U32(32768, 0) /\ pc = "idle" /\ err = None
  /\ syms \in SymTables
  /\ oc \in BOOLEAN
  /\ p_src \in OperandSources
  /\ p_pc = "operand"
  /\ p_inst = None /\ p_text = None /\ p_res = None /\ p_word = None
  /\ p_dec = None

\* parse_immediate::<i16> on a %hi / %lo operand
ParseImmediate ==
  /\ p_pc = "operand"
  /\ p_src.kind = "relocation"
  /\ p_res' = parse_immediate(p_src.text, "i16", DOMAIN labels, syms, oc)
  /\ p_pc' = "operand parsed"
  /\ UNCHANGED <<ScanVars, oc, p_src, p_inst, p_text, p_word, p_dec>>

\* parse_target on a jump-target token
ParseTarget ==
  /\ p_pc = "operand"
  /\ p_src.kind = "target"
  /\ p_res' = parse_target(p_src.text, syms)
  /\ p_pc' = "operand parsed"
  /\ UNCHANGED <<ScanVars, oc, p_src, p_inst, p_text, p_word, p_dec>>

\* Register::from_str on a register operand
ParseRegister ==
  /\ p_pc = "operand"
  /\ p_src.kind = "register"
  /\ p_res' = RegisterFromStr(p_src.text)
  /\ p_pc' = "operand parsed"
  /\ UNCHANGED <<ScanVars, oc, p_src, p_inst, p_text, p_word, p_dec>>

\* FloatRegister::from_str on a float register operand
ParseFloatRegister ==
  /\ p_pc = "operand"
  /\ p_src.kind = "float register"
  /\ p_res' = FloatRegisterFromStr(p_src.text)
  /\ p_pc' = "operand parsed"
  /\ UNCHANGED <<ScanVars, oc, p_src, p_inst, p_text, p_word, p_dec>>

\* parse_float_cond on a condition suffix
ParseFloatCond ==
  /\ p_pc = "operand"
  /\ p_src.kind = "cond"
  /\ p_res' = parse_float_cond(p_src.text)
  /\ p_pc' = "operand parsed"
  /\ UNCHANGED <<ScanVars, oc, p_src, p_inst, p_text, p_word, p_dec>>

\* FloatCond::try_from on an ordinal, and the name of the condition
RenderFloatCond ==
  /\ p_pc = "operand"
  /\ p_src.kind = "ordinal"
  /\ p_text' = FloatCondName(U32(0, p_src.ord))
  /\ p_pc' = "cond rendered"
  /\ UNCHANGED <<ScanVars, oc, p_src, p_inst, p_res, p_word, p_dec>>

\* parse_float_cond on the rendered name
ReparseFloatCond ==
  /\ p_pc = "cond rendered"
  /\ p_text.tag = "Ok"
  /\ p_res' = parse_float_cond(p_text.val)
  /\ p_pc' = "operand parsed"
  /\ UNCHANGED <<ScanVars, oc, p_src, p_inst, p_text, p_word, p_dec>>

NextOperand ==
  ParseImmediate \/ ParseTarget \/ ParseRegister \/ ParseFloatRegister
    \/ ParseFloatCond \/ RenderFloatCond \/ ReparseFloatCond

SpecOperand == InitOperand /\ [][NextOperand]_vars

(***************************************************************************)
(* One iteration of the resolver's loop on a branch, for instruction       *)
(* indexes and label indexes of sources of any length.                     *)
(***************************************************************************)
\* instruction indexes and label indexes, near and far apart
BranchIndexes == {0, 1, 2, 5, 100, 32766, 32767, 32768, 32769, 40000, 65535,
                  65536, 70000}

\* branches naming label .a
LabelBranches ==
  {IInst(op, rs, rt, ImmLabel(<<".", "a">>)) :
     op \in {"Beq", "Bne"}, rs \in {0, 8}, rt \in {0, 9}}

InitResolve ==
  /\ input = <<>> /\ pos = 0 /\ insts = <<>>
  /\ base_addr = U32(32768, 0) /\ syms = EmptyMap /\ pc = "idle" /\ err = None
  /\ \E L \in BranchIndexes : labels = MapInsert(EmptyMap, <<".", "a">>, L)
  /\ oc \in BOOLEAN
  /\ p_inst \in LabelBranches
  /\ \E i \in BranchIndexes : p_src = [kind |-> "branch", index |-> i]
  /\ p_pc = "branch"
  /\ p_text = None /\ p_res = None /\ p_word = None /\ p_dec = None

\* the loop body of adjust_labels on the instruction at index p_src.index
ResolveOne ==
  /\ p_pc = "branch"
  /\ p_res' = AdjustOne(p_inst, p_src.index, labels, base_addr, oc)
  /\ p_pc' = "resolved"
  /\ UNCHANGED <<ScanVars, oc, p_src, p_inst, p_text, p_word, p_dec>>

NextResolve == ResolveOne

SpecResolve == InitResolve /\ [][NextResolve]_vars

(***************************************************************************)
(* What the claims speak of, read off the source text.                     *)
(***************************************************************************)
\* the line declares a label / holds an instruction
IsLabelLine(l) == l # <<>> /\ l[Len(l)] = ":"
IsInstLine(l) == l # <<>> /\ l[Len(l)] # ":"

\* the name a label line declares: the line without its colon
NameOf(l) == SubSeq(l, 1, Len(l) - 1)

\* ".a" and ".b"
NameA == NameOf(LabelLineA)
NameB == NameOf(LabelLineB)

\* the number of instruction lines before line k of the source: the
\* zero-based index of the instruction on line k, or of the next one
IdxOf(k) == Cardinality({j \in 1..(k - 1) : IsInstLine(input[j])})

\* the label a line refers to
RefOf(l) == IF l = BranchLineA THEN NameA ELSE NameB

\* line k refers to a label no earlier line declares and a later one does
IsForwardRef(k) ==
  /\ input[k] \in {BranchLineA, JumpLineB}
  /\ \A j \in 1..(k - 1) : ~(IsLabelLine(input[j]) /\ NameOf(input[j]) = RefOf(input[k]))
  /\ \E j \in (k + 1)..Len(input) :
       IsLabelLine(input[j]) /\ NameOf(input[j]) = RefOf(input[k])

\* the 16-bit two's complement of n
Wrap16(n) == ((n % TwoTo16) + TwoTo16) % TwoTo16

\* base + 4 * L in 32-bit arithmetic
JumpAddress(base, L) ==
  LET lo == base.lo + 4 * L
  IN U32((base.hi + (lo \div TwoTo16)) % TwoTo16, lo % TwoTo16)

\* the expected operand count of the templates with a fixed one (design,
\* the operand-template table); jalr, div and break take an optional operand
FixedCount ==
  << [mn |-> <<"l","w">>, n |-> 2],
     [mn |-> <<"a","d","d","i">>, n |-> 3],
     [mn |-> <<"l","u","i">>, n |-> 2],
     [mn |-> <<"b","g","e","z">>, n |-> 2],
     [mn |-> <<"b","e","q">>, n |-> 3],
     [mn |-> <<"j">>, n |-> 1],
     [mn |-> <<"s","y","n","c">>, n |-> 0],
     [mn |-> <<"a","d","d">>, n |-> 3],
     [mn |-> <<"a","n","d">>, n |-> 3],
     [mn |-> <<"s","l","l">>, n |-> 3],
     [mn |-> <<"s","l","l","v">>, n |-> 3],
     [mn |-> <<"m","u","l","t">>, n |-> 2],
     [mn |-> <<"m","o","v","e">>, n |-> 2],
     [mn |-> <<"b">>, n |-> 1],
     [mn |-> <<"l","i">>, n |-> 2],
     [mn |-> <<"j","r">>, n |-> 1],
     [mn |-> <<"m","f","h","i">>, n |-> 1],
     [mn |-> <<"d","l","i">>, n |-> 2],
     [mn |-> <<"b","c","1","t">>, n |-> 1],
     [mn |-> <<"m","f","c","0">>, n |-> 2],
     [mn |-> <<"m","f","c","1">>, n |-> 2],
     [mn |-> <<"e","r","e","t">>, n |-> 0],
     [mn |-> <<"l","w","c","1">>, n |-> 2],
     [mn |-> <<"a","d","d",".","s">>, n |-> 3],
     [mn |-> <<"a","b","s",".","s">>, n |-> 2],
     [mn |-> <<"c",".","e","q",".","s">>, n |-> 2] >>

\* the instruction has the form its template carries: the fields the
\* template has no operand for are zero
TemplateForm(i) ==
  IF i.kind = "Immediate" THEN i.op # "Lui" \/ i.rs = 0
  ELSE IF i.kind = "Jump" THEN TRUE
  ELSE IF i.op \in {"Break", "Syscall"} THEN i.rs = 0 /\ i.rt = 0 /\ i.rd = 0
  ELSE IF i.op = "Sll" THEN i.rs = 0 /\ i.sa.lo < 32
  ELSE IF i.op = "Jalr" THEN i.rt = 0 /\ i.sa.lo = 0
  ELSE IF i.op = "Cs" THEN i.rd = 0 /\ i.sa.lo < 16
  ELSE i.sa.lo = 0

\* the instruction's fields fit the fields of the word layouts: a shift
\* amount of five bits, a word-aligned jump target within the 256 MB region
FitsWord(i) ==
  IF i.kind = "Register" THEN i.sa.hi = 0 /\ i.sa.lo < 32
  ELSE IF i.kind = "Jump"
  THEN i.target.addr.hi < 4096 /\ i.target.addr.lo % 4 = 0
  ELSE TRUE

C2_RenderParse ==
  (p_pc = "reparsed" /\ TemplateForm(p_inst)) => p_res = Ok(p_inst)

\* C3: a branch at instruction index i naming a label declared on an
\* earlier line at index L is resolved to the 16-bit offset L - (i + 1).
\* Refuted by the code when the label is declared again after the branch
\* (accepted, see C5): the later declaration's index is used.
C3_BackwardBranch ==
  pc = "done" =>
    \A k \in 1..Len(input) : \A j \in 1..(k - 1) :
      (input[k] = BranchLineA /\ input[j] = LabelLineA)
        => insts[IdxOf(k) + 1].imm = ImmInt(Wrap16(IdxOf(j) - (IdxOf(k) + 1)))

\* C4: a branch or jump naming a label declared only on a later line is
\* parsed (scanning does not fail on it) and is resolved by the rule of a
\* backward reference.  Refuted by the code: a branch naming a label that
\* is not yet in the label table fails with InvalidImmediate.
C4_ForwardReference ==
  /\ (pc = "error" /\ pos < Len(input)) => ~IsForwardRef(pos + 1)
  /\ pc = "done" =>
       \A k \in 1..Len(input) :
         IsForwardRef(k) =>
           IF input[k] = BranchLineA
           THEN insts[IdxOf(k) + 1].imm
                  = ImmInt(Wrap16(labels[NameA] - (IdxOf(k) + 1)))
           ELSE insts[IdxOf(k) + 1].target
                  = TargetAddress(JumpAddress(base_addr, labels[NameB]))

\* C5: a second declaration of a label name fails with
\* MultipleLabelDefinition carrying the name, so no name is declared twice
\* among the lines accepted.  Refuted by the code: the duplicate test looks
\* the line up with its colon, the table holds names without it.
C5_UniqueLabels ==
  \A k \in 1..Len(input) : \A j \in 1..(k - 1) :
    (IsLabelLine(input[k]) /\ input[j] = input[k])
      => /\ pos < k
         /\ (pc = "error" /\ pos = k - 1)
              => err = Err("MultipleLabelDefinition", NameOf(input[k]))

\* C6: a line of a template with a fixed operand count n that has another
\* number of operands fails with InvalidOperandCount{expected n, found the
\* number of operands}.  Refuted by the code: the no-operand templates take
\* any operands, and a line with no operand counts as one (empty) operand.
C6_OperandCount ==
  (p_pc = "parsed" /\ p_src.form = "registers") =>
    \A t \in 1..Len(FixedCount) :
      (p_src.mn = FixedCount[t].mn /\ Len(p_src.args) # FixedCount[t].n)
        => p_res = ErrCount(p_text, FixedCount[t].n, Len(p_src.args))

\* C7: the reg-reg-reg template gives its first, second and third operand
\* to rd, rs and rt, with sa = 0; add $t0, $t1, $t2 is Register{Add, rd 8,
\* rs 9, rt 10, sa 0} and encodes to 0x012A4020.
C7_RegRegReg ==
  (p_pc \in {"parsed", "assembled"} /\ p_src.form = "registers"
     /\ p_src.mn \in {<<"a","d","d">>, <<"a","n","d">>} /\ Len(p_src.args) = 3) =>
    /\ p_res = Ok(RInst(IF p_src.mn = <<"a","d","d">> THEN "Add" ELSE "And",
                        p_src.ords[2], p_src.ords[3], p_src.ords[1], U32(0, 0)))
    /\ p_text = AddLine =>
         /\ p_res = Ok([kind |-> "Register", op |-> "Add", rs |-> 9, rt |-> 10,
                        rd |-> 8, sa |-> U32(0, 0)])
         /\ p_pc = "assembled" => p_word = Ok(U32(298, 16416))

C7_Witness ==
  /\ p_pc = "assembled"
  /\ p_text = AddLine
  /\ p_word = Ok(U32(298, 16416))

\* C8: the load/store template gives its first operand to rt, the register
\* in parentheses to rs and the offset to imm; lw $v0, 4($sp) is
\* Immediate{Lw, rs 29, rt 2, imm 4} and encodes to 0x8FA20004.
C8_LoadStore ==
  (p_pc \in {"parsed", "assembled"} /\ p_src.form = "offset(base)") =>
    /\ p_res = Ok(IInst(CASE p_src.mn = <<"l","w">> -> "Lw"
                          [] p_src.mn = <<"s","w">> -> "Sw"
                          [] p_src.mn = <<"l","b">> -> "Lb",
                        p_src.ords[3], p_src.ords[1], ImmInt(p_src.ords[2])))
    /\ p_text = LwLine =>
         /\ p_res = Ok([kind |-> "Immediate", op |-> "Lw", rs |-> 29, rt |-> 2,
                        imm |-> [tag |-> "Int", val |-> 4]])
         /\ p_pc = "assembled" => p_word = Ok(U32(36770, 4))

C8_Witness ==
  /\ p_pc = "assembled"
  /\ p_text = LwLine
  /\ p_word = Ok(U32(36770, 4))

\* C9: every jump naming a declared label of index L is resolved to the
\* address base_addr + L * 4 in 32-bit arithmetic, whatever the base
\* address and the index.  Refuted by the code: where the sum passes 2^32
\* a build with overflow checks aborts instead.
C9_JumpAddress ==
  (pc \in {"done", "panic"}
     /\ \E k \in 1..Len(input) : input[k] = JumpLineB
     /\ NameB \in DOMAIN labels) =>
    /\ pc = "done"
    /\ \A k \in 1..Len(input) :
         input[k] = JumpLineB =>
           insts[IdxOf(k) + 1]
             = JInst("J", TargetAddress(JumpAddress(base_addr, labels[NameB])))

\* C10: after any prefix of the lines, each declared label maps to the
\* number of instruction lines before its (most recent) declaration, the
\* instruction count is the number of instruction lines processed, and
\* every label index lies between 0 and the instruction count.
C10_LabelIndex ==
  pc \in {"scan", "error", "done", "panic"} =>
    /\ Len(insts) = IdxOf(pos + 1)
    /\ DOMAIN labels = {NameOf(input[j]) : j \in {i \in 1..pos : IsLabelLine(input[i])}}
    /\ \A n \in DOMAIN labels :
         /\ labels[n] \in 0..Len(insts)
         /\ \E j \in 1..pos :
              /\ IsLabelLine(input[j]) /\ NameOf(input[j]) = n
              /\ \A i \in (j + 1)..pos : ~(IsLabelLine(input[i]) /\ NameOf(input[i]) = n)
              /\ labels[n] = IdxOf(j)

C10_Witness ==
  /\ pc = "scan"
  /\ pos = 3
  /\ input = <<AddLine, EmptyLine, LabelLineB>>
  /\ labels = [n \in {NameB} |-> 1]
  /\ Len(insts) = 1

\* the instruction still holds a symbolic label, as immediate or as target
HoldsLabel(i) ==
  \/ i.kind = "Immediate" /\ i.imm.tag = "Label"
  \/ i.kind = "Jump" /\ i.target.tag = "Label"

\* C11: whenever scan returns Ok, no instruction of the returned list still
\* holds a symbolic label, neither as immediate nor as jump target.
C11_NoSymbolicLabel ==
  pc = "done" => \A k \in 1..Len(insts) : ~HoldsLabel(insts[k])

C11_Witness ==
  /\ pc = "done"
  /\ input = <<LabelLineB, LabelLineA, JumpLineB>>
  /\ insts = <<JInst("J", TargetAddress(base_addr))>>

\* C12: in every template, a line with an operand that names no register
\* makes the parser return the error InvalidRegister, never abort; this
\* includes rt and base of a load/store and the op-code of cache.  Refuted
\* by the code: the load/store template unwraps the register results.
C12_InvalidRegister ==
  (p_pc = "parsed" /\ p_src.form = "bad register") =>
    /\ p_res.tag = "Err"
    /\ p_res.kind = "InvalidRegister"

\* C13: a line whose mnemonic (of one character or more) is in no opcode
\* table makes the parser return the error InvalidOpcode: no other error
\* kind, no abort.  Refuted by the code: the fallback arm returns
\* InvalidInstruction, and aborts on a mnemonic of one character.
C13_InvalidOpcode ==
  (p_pc = "parsed" /\ p_src.form = "unknown mnemonic") =>
    /\ p_res.tag = "Err"
    /\ p_res.kind = "InvalidOpcode"

\* line k of the source yields a parse error where it stands: among the
\* lines of a source, the line of spaces, and the branch naming a label no
\* earlier line declares
FailsToParse(k) ==
  \/ input[k] = SpaceLine
  \/ /\ input[k] = BranchLineA
     /\ \A j \in 1..(k - 1) : input[j] # LabelLineA

\* the error a failing line yields
ErrorOf(l) ==
  IF l = SpaceLine THEN Err("InvalidInstruction", SpaceLine)
  ELSE Err("InvalidImmediate", NameA)

\* C14: scan takes the lines in source order and stops at the first line
\* that yields a parse error: no failing line is ever passed, scan ends in
\* an error exactly at the first failing line with that line's error, and
\* the instruction list and label table hold nothing of a later line; a
\* list is returned only when every line was taken.
C14_FirstError ==
  /\ \A k \in 1..pos : ~FailsToParse(k)
  /\ pc = "done" => pos = Len(input)
  /\ pc = "error" =>
       /\ pos < Len(input)
       /\ FailsToParse(pos + 1)
       /\ err = ErrorOf(input[pos + 1])
       /\ Len(insts) = IdxOf(pos + 1)
       /\ DOMAIN labels
            = {NameOf(input[j]) : j \in {i \in 1..pos : IsLabelLine(input[i])}}

C14_Witness ==
  /\ pc = "error"
  /\ input = <<AddLine, BranchLineA, LabelLineA>>
  /\ pos = 1
  /\ Len(insts) = 1
  /\ labels = EmptyMap

\* C15: for an immediate %hi(t) or %lo(t) whose target resolves to the
\* 32-bit address addr, the parsed immediate is the 16-bit value of
\* (addr + (addr & 0x8000) * 2) >> 16 for %hi (the rounding term read as
\* the code has it) and addr & 0xffff for %lo, for every addr.  Refuted by
\* the code: for addr >= 0xFFFF8000 with bit 15 set the sum passes 2^32
\* and a build with overflow checks aborts.
C15_HiLo ==
  (p_pc = "operand parsed" /\ p_src.kind = "relocation"
     /\ (p_src.sym => p_src.target \in DOMAIN syms)) =>
    p_res = Ok(ImmInt(IF p_src.part = <<"h", "i">>
                      THEN (p_src.addr.hi + (p_src.addr.lo \div 32768)) % TwoTo16
                      ELSE p_src.addr.lo))

\* C16: jump-target classification by priority: a key of the symbol table
\* gives that address before any other rule; then ~Func: gives a function
\* reference, a leading dot a label reference; otherwise the token is a
\* hex or decimal address, and a token that is none of these fails with
\* InvalidTargetAddress.
C16_TargetPriority ==
  (p_pc = "operand parsed" /\ p_src.kind = "target") =>
    p_res = IF p_src.text \in DOMAIN syms
            THEN Ok(TargetAddress(syms[p_src.text]))
            ELSE CASE p_src.class = "function" -> Ok(TargetFunction(p_src.name))
                   [] p_src.class = "label" -> Ok(TargetLabel(p_src.name))
                   [] p_src.class = "address" -> Ok(TargetAddress(p_src.addr))
                   [] p_src.class = "invalid"
                        -> Err("InvalidTargetAddress", p_src.text)

C16_Witness ==
  /\ p_pc = "operand parsed"
  /\ p_src.kind = "target"
  /\ p_src.text = NameA
  /\ syms = ImportedSyms
  /\ p_res = Ok(TargetAddress(U32(32768, 4096)))

\* C17: a ~Func: jump target is not silently accepted: scan never returns
\* Ok with an instruction whose target is still a function reference.
\* Refuted by the code: the target is parsed, the resolver leaves it alone
\* and scan returns the list.
C17_NoFunctionTarget ==
  pc = "done" =>
    \A k \in 1..Len(insts) :
      ~(insts[k].kind = "Jump" /\ insts[k].target.tag = "Function")

\* C18: register-name parsing accepts each general register's name in any
\* letter case, with or without a leading "$", and its numeric form rN,
\* and each float register's numeric form fN, each mapped to the ordinal
\* it names; any other text is rejected.  Refuted by the code: of the
\* numeric forms rN only r0 is a name the parser knows.
C18_RegisterNames ==
  (p_pc = "operand parsed" /\ p_src.kind \in {"register", "float register"}) =>
    IF p_src.accept THEN p_res = Ok(p_src.ord) ELSE p_res.tag = "Err"

\* C19: the parser's suffix table and the model's ordinal table invert each
\* other: ordinal n in 0..15 is rendered as the n-th name of f, un, eq,
\* ueq, olt, ult, ole, ule, sf, ngle, seq, ngl, lt, nge, le, ngt, and that
\* name parses to n; any other suffix fails with InvalidFloatCond and an
\* ordinal above 15 is rejected.
C19_FloatCond ==
  /\ (p_pc = "operand parsed" /\ p_src.kind = "cond") =>
       p_res = IF p_src.accept THEN Ok(p_src.ord)
               ELSE Err("InvalidFloatCond", p_src.text)
  /\ (p_pc \in {"cond rendered", "operand parsed"} /\ p_src.kind = "ordinal") =>
       IF p_src.ord <= 15
       THEN /\ p_text = Ok(CondOrder[p_src.ord + 1])
            /\ p_pc = "operand parsed" => p_res = Ok(p_src.ord)
       ELSE p_text.tag # "Ok" /\ p_pc = "cond rendered"

C19_Witness ==
  /\ p_pc = "operand parsed"
  /\ p_src.kind = "ordinal"
  /\ p_src.ord = 15
  /\ p_text = Ok(<<"n", "g", "t">>)
  /\ p_res = Ok(15)

\* the immediate class of a mnemonic: zero-extended, wide (li, dli), or
\* sign-extended for every other 16-bit immediate template
ImmClass(m) ==
  IF ToLowercase(m) \in {<<"a","n","d","i">>, <<"o","r","i">>,
                         <<"x","o","r","i">>, <<"l","u","i">>}
  THEN "zero-extended"
  ELSE IF ToLowercase(m) \in {<<"l","i">>, <<"d","l","i">>} THEN "wide"
  ELSE "sign-extended"

\* the number lies in the range of the class
InClassRange(class, n) ==
  IF class = "zero-extended" THEN n \in 0..65535
  ELSE IF class = "sign-extended" THEN n \in (-32768)..32767
  ELSE TRUE

\* C20: a numeric immediate literal is accepted only within the width of
\* its opcode class: 0..65535 for andi, ori, xori and lui, -32768..32767 for
\* every other 16-bit immediate template, wider values for li and dli; a
\* literal outside its class range fails with InvalidImmediate.  Refuted by
\* the code where the mnemonic is written in upper case (see C27).
C20_ImmediateRange ==
  (p_pc = "parsed" /\ p_src.form = "immediate") =>
    IF InClassRange(ImmClass(p_src.mn), p_src.ords[1])
    THEN /\ p_res.tag = "Ok"
         /\ p_res.val.imm = ImmInt(Wrap16(p_src.ords[1]))
    ELSE /\ p_res.tag = "Err"
         /\ p_res.kind = "InvalidImmediate"

\* the line is blank: empty, or nothing but whitespace
IsBlank(l) == \A i \in 1..Len(l) : l[i] \in {" ", "\t"}

\* C21: a blank line (empty, or only whitespace) is skipped: scanning it
\* adds no instruction and no label and raises no error.  Refuted by the
\* code: only the empty line is skipped, a line of spaces is given to
\* parse_inst and fails with InvalidInstruction.
C21_BlankLine ==
  [][(pc = "scan" /\ pos < Len(input) /\ IsBlank(input[pos + 1])) =>
       (pos' = pos + 1 /\ pc' = "scan" /\ UNCHANGED <<insts, labels, err>>)]_vars

\* the line "jalr" followed by the names of the registers
JalrLine(regs) ==
  <<"j", "a", "l", "r">> \o Gap
    \o JoinArgs([k \in DOMAIN regs |-> RegisterNames[regs[k] + 1]])

\* C22: for every pair (rd, rs) the renderer prints jalr as "jalr rs" when
\* rd is ra and as "jalr rd, rs" otherwise; the one-operand line parses to
\* rd = ra and the given rs, the two-operand line to its first operand as
\* rd and its second as rs, so parsing the rendered line gives back the
\* same rd and rs.
C22_Jalr ==
  (p_pc = "reparsed" /\ p_inst \in JalrInsts) =>
    /\ p_text = Ok(IF p_inst.rd = RegisterRa THEN JalrLine(<<p_inst.rs>>)
                   ELSE JalrLine(<<p_inst.rd, p_inst.rs>>))
    /\ p_res = Ok(p_inst)

C22_Witness ==
  /\ p_pc = "reparsed"
  /\ p_inst = RInst("Jalr", 9, RegisterNull, 8, Zero32)
  /\ p_text = Ok(JalrLine(<<8, 9>>))
  /\ p_res = Ok(p_inst)

\* the sign and the hexadecimal of the absolute value of v read as i16
SignedText(v) ==
  IF v < 32768 THEN <<"0", "x">> \o HexOf(v, HexDigitChars)
  ELSE <<"-", "0", "x">> \o HexOf(65536 - v, HexDigitChars)

\* the operand appears in the line, after a space
HasOperand(line, operand) ==
  \E k \in 1..Len(line) :
    SubSeq(line, k, k + Len(operand)) = <<" ">> \o operand

\* C23: for an opcode whose immediate is sign-extended and every stored
\* value v the renderer prints the immediate as the sign followed by the
\* hexadecimal of |v as i16|, 0x8000 included.  Refuted by the code: for
\* 0x8000 val.abs() overflows and a build with overflow checks aborts.
C23_SignedImmediate ==
  (p_pc = "rendered" /\ p_inst.kind = "Immediate"
     /\ p_inst.op \in {"Lw", "Addi", "Beq"}) =>
    /\ p_text.tag = "Ok"
    /\ HasOperand(p_text.val, SignedText(p_inst.imm.val))

\* the source has a jump to .b and no line declares .b
JumpsToUndeclared ==
  /\ \E k \in 1..Len(input) : input[k] = JumpLineB
  /\ \A j \in 1..Len(input) : input[j] # LabelLineB

\* C24: when a jump names a "."-label that no line of the source declares,
\* scan returns no instruction list, returns no ParserError for the jump
\* (an error is that of another, failing line), and aborts in the resolver
\* once every line has been parsed without error.
C24_UndeclaredJump ==
  JumpsToUndeclared =>
    /\ pc # "done"
    /\ pc = "error" => (pos < Len(input) /\ FailsToParse(pos + 1))
    /\ pc = "panic" =>
         /\ pos = Len(input)
         /\ \A k \in 1..Len(input) : ~FailsToParse(k)
         /\ Len(insts) = IdxOf(Len(input) + 1)
         /\ err = Panic("called Option::unwrap() on a None value")

C24_Witness ==
  /\ pc = "panic"
  /\ input = <<AddLine, JumpLineB, LabelLineA>>
  /\ pos = 3
  /\ Len(insts) = 2
  /\ err = Panic("called Option::unwrap() on a None value")

\* C25: in the offset(base) operand of the integer and the float load/store
\* templates the base register is the last parenthesised group and the
\* offset the text before it, 0 when there is none; both templates accept
\* the same offset texts, literals and %hi/%lo relocations, with the same
\* immediate.  Refuted by the code: the float template strips every "("
\* from the offset text, so a relocation offset is rejected there.
C25_OffsetBase ==
  (p_pc = "parsed" /\ p_src.form \in {"offset(base)", "float offset(base)"}) =>
    /\ p_res.tag = "Ok"
    /\ p_res.val.rs = p_src.ords[3]
    /\ p_res.val.imm = ImmInt(p_src.ords[2])

\* b is a with nothing but its symbolic label replaced by a number
OnlyLabelReplaced(a, b) ==
  IF a.kind = "Immediate"
  THEN /\ b.kind = "Immediate" /\ b.op = a.op /\ b.rs = a.rs /\ b.rt = a.rt
       /\ b.imm.tag = "Int"
  ELSE /\ b.kind = "Jump" /\ b.op = a.op
       /\ b.target.tag = "Address"

\* C26: the resolver's pass keeps the length and the order of the list,
\* leaves every instruction without a symbolic label as it is, replaces in
\* the others only the immediate or target (op, rs and rt are kept), and a
\* second pass over its result changes nothing.
C26_ResolverFrame ==
  [][(pc = "scan" /\ pc' = "done") =>
       /\ Len(insts') = Len(insts)
       /\ \A k \in 1..Len(insts) :
            IF HoldsLabel(insts[k]) THEN OnlyLabelReplaced(insts[k], insts'[k])
            ELSE insts'[k] = insts[k]
       /\ adjust_labels(insts', labels', base_addr', oc') = Ok(insts')]_vars

C26_Witness ==
  /\ pc = "done"
  /\ input = <<LabelLineA, BranchLineA, AddLine>>
  /\ Len(insts) = 2
  /\ insts[1] = IInst("Beq", 8, 9, ImmInt(65535))
  /\ insts[2] = RInst("Add", 9, 10, 8, Zero32)

\* the same instruction, or an error of the same kind
SameOutcome(a, b) ==
  /\ a.tag = b.tag
  /\ a.tag = "Ok" => a.val = b.val
  /\ a.tag = "Err" => a.kind = b.kind

\* C27: a line whose mnemonic is written in upper case parses to the same
\* outcome as the line with the mnemonic in lower case; ANDI, ORI and XORI
\* take the immediates 0..65535 as andi, ori and xori do.  Refuted by the
\* code: the immediate's width is chosen by comparing the mnemonic as
\* written with "andi", "ori" and "xori".
C27_MnemonicCase ==
  (p_pc = "parsed" /\ p_src.mn # ToLowercase(p_src.mn)) =>
    SameOutcome(p_res,
                parse_inst(LineOf(ToLowercase(p_src.mn), p_src.args),
                           DOMAIN labels, syms, oc))

\* C28: a shift-immediate line that is accepted stores a shift amount in
\* 0..31, and a shift amount that is negative, above 31 or no number is
\* rejected with a returned error.  Refuted by the code: the amount is
\* parsed as an i32 and stored unchecked, and a text that is no number
\* aborts on unwrap.
C28_ShiftAmount ==
  (p_pc = "parsed" /\ p_src.form = "shift") =>
    /\ p_res.tag = "Ok" => (p_res.val.sa.hi = 0 /\ p_res.val.sa.lo \in 0..31)
    /\ p_src.ords = <<>> => p_res.tag = "Err"

\* the distance from the instruction after the branch to the label
BranchDistance == labels[NameA] - (p_src.index + 1)

\* C29: a branch at index i resolved against label index L stores
\* (L - (i + 1)) mod 2^16; read as a signed 16-bit number the stored value
\* is the distance exactly when the distance lies in -32768..32767, and a
\* distance outside that range is stored truncated, without an error.
C29_BranchOffset ==
  p_pc = "resolved" =>
    /\ p_res = Ok(IInst(p_inst.op, p_inst.rs, p_inst.rt,
                        ImmInt(Wrap16(BranchDistance))))
    /\ (AsI16(p_res.val.imm.val) = BranchDistance)
         <=> (BranchDistance \in -32768..32767)

C29_Witness ==
  /\ p_pc = "resolved"
  /\ p_src.index = 40000
  /\ labels[NameA] = 0
  /\ p_res.tag = "Ok"
  /\ p_res.val.imm = ImmInt(25535)

\* the 32-bit value of hi * 2^16 + signext16(lo)
Recombine(h, l) ==
  U32((h + TwoTo16 - (IF l >= 32768 THEN 1 ELSE 0)) % TwoTo16, l)

\* the halves of the pair: the parsed one from the parser's result, the
\* other one computed for the same address
PairHi == IF p_src.part = <<"h", "i">> THEN p_res ELSE HiOf(p_src.addr, oc)
PairLo == IF p_src.part = <<"l", "o">> THEN p_res ELSE LoOf(p_src.addr)

\* C30: for every 32-bit address a the parser computes %hi(a) and %lo(a)
\* without failing, and hi * 2^16 + signext16(lo) is a modulo 2^32.
\* Refuted by the code: for a >= 0xFFFF8000 with bit 15 set the %hi sum
\* passes 2^32 and a build with overflow checks aborts.
C30_HiLoRecombine ==
  (p_pc = "operand parsed" /\ p_src.kind = "relocation"
     /\ (p_src.sym => p_src.target \in DOMAIN syms)) =>
    /\ p_res.tag = "Ok"
    /\ PairHi.tag = "Ok" => Recombine(PairHi.val.val, PairLo.val.val) = p_src.addr

=============================================================================
